---------------------------- MODULE Spec2Model ----------------------------
(***************************************************************************)
(* A model of the audioMotion-analyzer module (src/audioMotion-analyzer.js)*)
(* as used by the lyrics overlay: the analyzer object's configuration, the *)
(* structures derived from it (bars, LEDs, gradient, auxiliary flags), the *)
(* render loop driven by the browser's animation-frame callbacks, and the  *)
(* gradient registry; of the main process's handler of the backend's       *)
(* stdout (src/main.js); and of the renderer's drag and click-through      *)
(* controls (src/unnamed/part_004).                                        *)
(*                                                                         *)
(* Numbers.  JavaScript numbers are modelled in fixed point:               *)
(*   - frequencies of FFT bins and of the tempered scale: 1/FreqUnit Hz;   *)
(*   - minFreq / maxFreq: whole Hz;                                        *)
(*   - interpolation ratios: 1/RatioOne;                                   *)
(*   - horizontal positions and widths: 1/PxUnit pixel;                    *)
(*   - bar values, peaks and energy: 1/ValOne (ValOne stands for 1.0);     *)
(*   - reflexRatio: 1/PctOne; barSpace: 1/PxUnit.                          *)
(* NaN, +Infinity and -Infinity are the sentinels NaN, PosInf, NegInf.     *)
(***************************************************************************)
EXTENDS Integers, Sequences, FiniteSets, TLC

VARIABLES
    am,        \* the AudioMotionAnalyzer instance (its fields)
    pending,   \* ids of the animation-frame callbacks the browser holds
    nextId,    \* the id the next requestAnimationFrame call returns
    call,      \* the last public call made on the instance
    err,       \* what that call raised ("" when it returned normally)
    lastStop,  \* TRUE from an effective toggleAnalyzer(false) until the next start
    main,      \* the main process: the backend's stdout stream and its handler's state
    ui         \* the renderer's window controls: drag, settings panel, click-through

vars == <<am, pending, nextId, call, err, lastStop, main, ui>>

\* the main process before the backend wrote anything: `let buffer = ''`, the
\* window created; stream and pos are the bytes the backend writes and how
\* many of them were delivered
MainIdle ==
    [stream |-> << >>, pos |-> 0, buffer |-> << >>, sent |-> << >>,
     window |-> TRUE]

\* the renderer's controls after init(): hover says the pointer is over an
\* interactive element, open that the settings panel has the class 'open',
\* timer that the start-up timeout is still to fire, media and init count
\* the enableVisualization() calls suspended at their first and second
\* await, ipc is what the last handler sent to the main process
UiIdle ==
    [isDragging |-> FALSE, open |-> FALSE, hover |-> FALSE, timer |-> TRUE,
     media |-> 0, init |-> 0, ipc |-> << >>]

---------------------------------------------------------------------------
(* Units and sentinels *)

FreqUnit == 128
RatioOne == 1000
PxUnit   == 1000
ValOne   == 255000
PctOne   == 100
LogOne   == 4096

PosInf == 1000000000
NegInf == -1000000000
NaN    == -999999999

UNDEF == "undefined"
NoErr == ""

IsNaN(x) == x = NaN

Min2(a, b) == IF a < b THEN a ELSE b
Max2(a, b) == IF a > b THEN a ELSE b

\* 2 ** n for n in 0 .. 20
Pow2(n) ==
    << 1, 2, 4, 8, 16, 32, 64, 128, 256, 512, 1024, 2048, 4096, 8192, 16384,
       32768, 65536, 131072, 262144, 524288, 1048576 >>[n + 1]

\* floor(log2 n) for 1 <= n < 2 ** 22, by bisection
FloorLog2(n) ==
    IF n >= 2048
    THEN IF n >= 65536
         THEN IF n >= 524288
              THEN IF n >= 1048576
                   THEN IF n >= 2097152
                        THEN 21
                        ELSE 20
                   ELSE 19
              ELSE IF n >= 131072
                   THEN IF n >= 262144
                        THEN 18
                        ELSE 17
                   ELSE 16
         ELSE IF n >= 8192
              THEN IF n >= 16384
                   THEN IF n >= 32768
                        THEN 15
                        ELSE 14
                   ELSE 13
              ELSE IF n >= 4096
                   THEN 12
                   ELSE 11
    ELSE IF n >= 32
         THEN IF n >= 256
              THEN IF n >= 512
                   THEN IF n >= 1024
                        THEN 10
                        ELSE 9
                   ELSE 8
              ELSE IF n >= 64
                   THEN IF n >= 128
                        THEN 7
                        ELSE 6
                   ELSE 5
         ELSE IF n >= 4
              THEN IF n >= 8
                   THEN IF n >= 16
                        THEN 4
                        ELSE 3
                   ELSE 2
              ELSE IF n >= 2
                   THEN 1
                   ELSE 0

\* one squaring step of the binary logarithm: mantissa m in [2^14, 2^15)
RECURSIVE LogBits(_, _)
LogBits(m, k) ==
    IF k = 0 THEN 0
    ELSE LET sq == (m * m) \div 16384
         IN  IF sq >= 32768
             THEN Pow2(k - 1) + LogBits(sq \div 2, k - 1)
             ELSE LogBits(sq, k - 1)

\* Math.log10 and Math.log, up to a common factor: log2(n) in 1/LogOne,
\* for an integer n >= 1.  Only quotients and signs of differences are used.
LogFix(n) ==
    LET e == FloorLog2(n)
        m == IF e >= 14 THEN n \div Pow2(e - 14) ELSE n * Pow2(14 - e)
    IN  e * LogOne + LogBits(m, 12)

\* Math.round of the quotient num/den, den # 0
RoundDiv(num, den) ==
    IF den > 0 THEN (2 * num + den) \div (2 * den)
    ELSE (2 * (0 - num) - den) \div (2 * (0 - den))

\* value | 0 for the numbers the model passes (all integers): the identity;
\* non-numbers become 0
ToInt32(v) == IF v \in Int THEN v ELSE 0

SetAt(seq, i, v) ==
    IF i <= Len(seq) THEN [seq EXCEPT ![i] = v] ELSE Append(seq, v)

---------------------------------------------------------------------------
(* Internal constants, lines 13-17 *)

\* C0 * ROOT24 ** (240 + note), note = 0..23, in 1/FreqUnit Hz: the top
\* octave of the tempered scale; lower octaves are halvings of it
ScaleTop ==
    << 2143237, 2206038, 2270680, 2337216, 2405702, 2476194, 2548752, 2623436,
       2700309, 2779434, 2860878, 2944708, 3030994, 3119809, 3211227, 3305323,
       3402176, 3501867, 3604480, 3710099, 3818814, 3930713, 4045892, 4164446 >>

ScaleLen == 264

\* C0 * ROOT24 ** index, index = octave * 24 + note
ScaleFreq(index) ==
    ScaleTop[(index % 24) + 1] \div Pow2(10 - (index \div 24))

ValidModes == (0..8) \cup {10}

---------------------------------------------------------------------------
(* Frequency <-> bin, lines 542 and 1071-1075 *)

BinCount(s) == s.fftSize \div 2

\* width of one FFT bin, sampleRate / fftSize, in 1/FreqUnit Hz (an integer
\* for the sample rates and FFT sizes of the model)
BinWidth(s) == (s.sampleRate * FreqUnit) \div s.fftSize

\* binToFreq = bin => bin * sampleRate / fftSize || 1
BinToFreq(s, bin) == IF bin = 0 THEN FreqUnit ELSE bin * BinWidth(s)

FreqToBin_Unclamped(s, freq, rounding) ==
    IF rounding = "floor" THEN freq \div BinWidth(s)
    ELSE (2 * freq + BinWidth(s)) \div (2 * BinWidth(s))

\* _freqToBin( freq, rounding ), freq in 1/FreqUnit Hz
FreqToBin(s, freq, rounding) ==
    LET max == BinCount(s) - 1
        bin == IF rounding = "floor" THEN freq \div BinWidth(s)
               ELSE (2 * freq + BinWidth(s)) \div (2 * BinWidth(s))
    IN  IF bin < max THEN bin ELSE max

---------------------------------------------------------------------------
(* _calcAux, lines 516-536 *)

\* this._mode % 10 != 0
IsOctaveBands(mode) == mode % 10 # 0

CalcAux(s) ==
    LET isRadial == s.radial
        isDual   == s.stereo /\ ~isRadial
        centerX  == s.canvasW \div 2
        minDim   == Min2(s.canvasW, s.canvasH)
        bw       == s.barWidth
        bsRaw    == IF s.barSpace > 0 /\ s.barSpace < PxUnit
                    THEN (IF bw \in {NaN, PosInf} THEN bw
                          ELSE (bw * s.barSpace) \div PxUnit)
                    ELSE s.barSpace
        bwLess1  == IF bw \in {NaN, PosInf} THEN bw ELSE bw - PxUnit
        octave   == IsOctaveBands(s.mode)
        led      == s.showLeds /\ octave /\ ~isRadial
        lumi     == s.lumiBars /\ octave /\ ~isRadial
        chH      == IF isDual
                    THEN (IF ~led THEN (s.canvasH - 1) \div 2 ELSE s.canvasH \div 2)
                    ELSE s.canvasH
    IN  [s EXCEPT
           !.radius         = IF s.stereo THEN (minDim * 3) \div 8 ELSE minDim \div 8,
           !.barSpacePx     = IF NaN \in {bwLess1, bsRaw} THEN NaN ELSE Min2(bwLess1, bsRaw),
           !.isOctaveBands  = octave,
           !.isLedDisplay   = led,
           !.isLumiBars     = lumi,
           !.isAlphaBars    = s.alphaBars /\ ~lumi /\ s.mode # 10,
           !.isOutline      = s.outlineBars /\ octave /\ ~lumi /\ ~led,
           !.maximizeLeds   = ~s.stereo \/ (s.reflexRatio > 0 /\ ~lumi),
           !.channelHeight  = chH,
           !.analyzerHeight = IF lumi \/ isRadial THEN chH
                              ELSE (chH * (PctOne - s.reflexRatio)) \div PctOne,
           !.channelGap     = IF isDual THEN s.canvasH - chH * 2 ELSE 0,
           !.analyzerWidth  = s.canvasW - (IF s.mirror # 0 THEN centerX ELSE 0),
           !.initialX       = IF s.mirror = -1 /\ ~isRadial THEN centerX ELSE 0]

---------------------------------------------------------------------------
(* _calcBars, lines 538-637 *)

\* barsPush( posX, binLo, binHi, freqLo, freqHi, ratioLo, ratioHi )
NewBar(posX, binLo, binHi, freqLo, freqHi, ratioLo, ratioHi) ==
    [posX |-> posX, binLo |-> binLo, binHi |-> binHi, freqLo |-> freqLo,
     freqHi |-> freqHi, ratioLo |-> ratioLo, ratioHi |-> ratioHi,
     peak |-> <<0, 0>>, hold |-> <<0>>, value |-> <<0>>]

\* { freq, bin, ratio } of lines 556-561 for a scale frequency and its bin
EntryAt(s, freq, bin) ==
    [freq |-> freq, bin |-> bin,
     ratio |-> ((freq - BinToFreq(s, bin)) * RatioOne)
                 \div (BinToFreq(s, bin + 1) - BinToFreq(s, bin))]

\* one entry of temperedScale, lines 554-562
ScaleEntry(s, index) ==
    EntryAt(s, ScaleFreq(index), FreqToBin(s, ScaleFreq(index), "floor"))

Steps_HalfOctaveTwice(mode) == <<1, 2, 3, 4, 6, 8, 12, 12>>[mode]

\* const steps = [0,1,2,3,4,6,8,12,24][ this._mode ]
Steps(mode) == <<1, 2, 3, 4, 6, 8, 12, 24>>[mode]

\* PushGroup with the new bar starting one bin before the end of the
\* previous one after gap filling
PushGroup_BinLoBehind(s, bars, lo, hi) ==
    LET nBars == Len(bars)
    IN  IF nBars = 0
        THEN Append(bars, NewBar(0, lo.bin, hi.bin, lo.freq, hi.freq, lo.ratio, hi.ratio))
        ELSE
          LET prev0 == bars[nBars]
              diff  == lo.bin - prev0.binHi
              fill  == diff > 1
              newHi == lo.bin - (diff \div 2)
              prev1 == IF fill
                       THEN [prev0 EXCEPT !.binHi = newHi, !.ratioHi = 0,
                                          !.freqHi = BinToFreq(s, newHi)]
                       ELSE prev0
              prev2 == IF fill /\ nBars > 1 /\ prev1.binHi > prev1.binLo
                            /\ prev1.binLo > bars[nBars - 1].binHi
                       THEN [prev1 EXCEPT !.ratioLo = 0,
                                          !.freqLo = BinToFreq(s, prev1.binLo)]
                       ELSE prev1
              binLo == IF fill THEN prev2.binHi - 1 ELSE lo.bin
              snap  == hi.bin > binLo /\ binLo > prev2.binHi
              bar   == NewBar(0, binLo, hi.bin,
                              IF snap THEN BinToFreq(s, binLo) ELSE lo.freq, hi.freq,
                              IF snap THEN 0 ELSE lo.ratio, hi.ratio)
          IN  Append([bars EXCEPT ![nBars] = prev2], bar)

\* PushGroup without the gap filling of lines 584-596
PushGroup_NoFill(s, bars, lo, hi) ==
    Append(bars, NewBar(0, lo.bin, hi.bin, lo.freq, hi.freq, lo.ratio, hi.ratio))

\* the body of the loop of lines 581-600 for one group that lies at or above
\* minFreq: gap filling against the previous bar, then barsPush
PushGroup(s, bars, lo, hi) ==
    LET nBars == Len(bars)
    IN  IF nBars = 0
        THEN Append(bars, NewBar(0, lo.bin, hi.bin, lo.freq, hi.freq, lo.ratio, hi.ratio))
        ELSE
          LET prev0 == bars[nBars]
              diff  == lo.bin - prev0.binHi
              fill  == diff > 1
              newHi == lo.bin - (diff \div 2)
              prev1 == IF fill
                       THEN [prev0 EXCEPT !.binHi = newHi, !.ratioHi = 0,
                                          !.freqHi = BinToFreq(s, newHi)]
                       ELSE prev0
              prev2 == IF fill /\ nBars > 1 /\ prev1.binHi > prev1.binLo
                            /\ prev1.binLo > bars[nBars - 1].binHi
                       THEN [prev1 EXCEPT !.ratioLo = 0,
                                          !.freqLo = BinToFreq(s, prev1.binLo)]
                       ELSE prev1
              binLo == IF fill THEN prev2.binHi + 1 ELSE lo.bin
              snap  == hi.bin > binLo /\ binLo > prev2.binHi
              bar   == NewBar(0, binLo, hi.bin,
                              IF snap THEN BinToFreq(s, binLo) ELSE lo.freq, hi.freq,
                              IF snap THEN 0 ELSE lo.ratio, hi.ratio)
          IN  Append([bars EXCEPT ![nBars] = prev2], bar)

\* one pass of the loop body of lines 567-601 for the group lo .. hi; done
\* after the break of line 577; err is "TypeError" when the terminal fix-up
\* dereferences a previous bar that does not exist
OctaveGroup(s, acc, lo, hi) ==
    IF hi.freq > s.maxFreq * FreqUnit \/ hi.bin >= BinCount(s)
    THEN IF Len(acc.bars) = 0
         THEN [bars |-> acc.bars, err |-> "TypeError", done |-> TRUE]
         ELSE [bars |-> [acc.bars EXCEPT
                           ![Len(acc.bars)].binHi   = @ + 1,
                           ![Len(acc.bars)].ratioHi = 0,
                           ![Len(acc.bars)].freqHi  =
                               BinToFreq(s, acc.bars[Len(acc.bars)].binHi + 1)],
               err |-> NoErr, done |-> TRUE]
    ELSE IF lo.freq >= s.minFreq * FreqUnit
    THEN [acc EXCEPT !.bars = PushGroup(s, acc.bars, lo, hi)]
    ELSE acc

\* the pass of the loop at `index`, if the loop has not ended before
OctaveStep(s, index, acc) ==
    IF acc.done THEN acc
    ELSE OctaveGroup(s, acc, ScaleEntry(s, index),
                     ScaleEntry(s, index + Steps(s.mode) - 1))

\* the passes a .. b-1 of the loop, pass k being at index k * steps
RECURSIVE OctaveRange(_, _, _, _)
OctaveRange(s, a, b, acc) ==
    IF a >= b THEN acc
    ELSE IF b - a = 1 THEN OctaveStep(s, a * Steps(s.mode), acc)
    ELSE LET mid  == (a + b) \div 2
             left == OctaveRange(s, a, mid, acc)
         IN  IF left.done THEN left ELSE OctaveRange(s, mid, b, left)

\* the loop of lines 567-601: for ( let index = 0; index < temperedScale.length; index += steps )
OctaveLoop(s) ==
    OctaveRange(s, 0, ScaleLen \div Steps(s.mode),
                [bars |-> << >>, err |-> NoErr, done |-> FALSE])

\* minLog and the denominator of logWidth, lines 610-611
LogRange(s) ==
    [min |-> LogFix(s.minFreq), den |-> LogFix(s.maxFreq) - LogFix(s.minFreq)]

\* pos of line 620, in whole pixels: initialX + Math.round( logWidth *
\* ( Math.log10( freq ) - minLog ) ), with logWidth of line 611.  When
\* log10(maxFreq) = minLog the division of line 611 gives +Infinity and the
\* product is +Infinity, -Infinity or NaN (Infinity * 0).
DiscretePos(s, lg, freq) ==
    IF lg.den = 0
    THEN (IF freq = s.minFreq * FreqUnit \/ s.analyzerWidth = 0 THEN NaN
          ELSE IF freq > s.minFreq * FreqUnit THEN PosInf ELSE NegInf)
    ELSE s.initialX
         + RoundDiv(s.analyzerWidth * (LogFix(freq) - 7 * LogOne - lg.min), lg.den)

\* lines 621-628 for bin i, at frequency freq and position pos
DiscretePush(acc, i, freq, pos) ==
    IF ~IsNaN(pos) /\ pos > acc.lastPos
    THEN [bars |-> Append(acc.bars,
                          NewBar(IF pos \in {PosInf, NegInf} THEN pos ELSE pos * PxUnit,
                                 i, i, freq, freq, 0, 0)),
          lastPos |-> pos]
    ELSE IF Len(acc.bars) > 0
    THEN [acc EXCEPT !.bars[Len(acc.bars)].binHi = i,
                     !.bars[Len(acc.bars)].freqHi = freq]
    ELSE acc

\* one pass of the loop body of lines 618-629 for bin i
DiscreteStep(s, lg, i, acc) ==
    DiscretePush(acc, i, BinToFreq(s, i), DiscretePos(s, lg, BinToFreq(s, i)))

\* the loop of lines 618-629 over the bins a .. b-1
RECURSIVE DiscreteLoop(_, _, _, _, _)
DiscreteLoop(s, lg, a, b, acc) ==
    IF a >= b THEN acc
    ELSE IF b - a = 1 THEN DiscreteStep(s, lg, a, acc)
    ELSE LET mid  == (a + b) \div 2
             left == DiscreteLoop(s, lg, a, mid, acc)
         IN  IF Len(left.bars) >= 0 THEN DiscreteLoop(s, lg, mid, b, left) ELSE left

\* bars.forEach( ( bar, index ) => bar.posX = initialX + index * this._barWidth )
PlaceBars(s, bars) ==
    [k \in 1..Len(bars) |->
        [bars[k] EXCEPT !.posX = s.initialX * PxUnit
                                 + ((k - 1) * s.analyzerWidth * PxUnit) \div Len(bars)]]

---------------------------------------------------------------------------
(* _calcLeds, lines 639-674.  Lengths in 1/PxUnit pixel, ratios in 1/PxUnit. *)
(* The display is one with devicePixelRatio <= 1 or taller than 540 pixels, *)
(* so dPR of line 641 is this._pixelRatio.                                  *)

\* the preset table of lines 642-645: [ maxLeds, spaceVRatio, spaceHRatio ]
LedPresets ==
    << <<128, 3000, 450>>, <<128, 4000, 225>>, <<96, 6000, 225>>, <<80, 6000, 225>>,
       <<80, 6000, 125>>,  <<64, 6000, 125>>,  <<48, 8000, 125>>, <<24, 16000, 125>> >>

\* the do/while of lines 654-658, entered with ledCount already decremented
RECURSIVE LedShrink(_, _, _, _)
LedShrink(ahPx, ledCount, spaceVRatio, minHeight) ==
    LET blockHeight == (ahPx * PxUnit * PxUnit) \div (ledCount * (PxUnit + spaceVRatio))
        spaceV      == (blockHeight * spaceVRatio) \div PxUnit
    IN  IF (blockHeight < minHeight \/ spaceV < minHeight) /\ ledCount > 1
        THEN LedShrink(ahPx, ledCount - 1, spaceVRatio, minHeight)
        ELSE <<ledCount, spaceV>>

CalcLeds(s) ==
    IF ~s.isOctaveBands \/ ~s.ready THEN s
    ELSE
      LET dPR    == s.pixelRatio
          custom == s.ledParams # <<>>
          p      == IF custom THEN s.ledParams ELSE LedPresets[s.mode]
          maxLeds     == p[1]
          spaceVRatio == p[2]
          spaceHRatio == p[3]
          shrunk == LedShrink(s.analyzerHeight, maxLeds, spaceVRatio, 2 * dPR)
          spaceV == IF custom THEN shrunk[2]
                    ELSE Min2((spaceVRatio * dPR) \div PxUnit,
                              Max2(2 * PxUnit,
                                   (((s.analyzerHeight * spaceVRatio) \div 540 + 100)
                                      \div PxUnit) * PxUnit))
          ah     == s.analyzerHeight * PxUnit + (IF s.maximizeLeds THEN spaceV ELSE 0)
          ledCount == IF custom THEN shrunk[1]
                      ELSE Min2(maxLeds, ah \div (spaceV * 2))
          bw     == s.barWidth
      IN  [s EXCEPT !.leds =
             << ledCount,
                IF spaceHRatio >= PxUnit THEN spaceHRatio
                ELSE IF bw \in {NaN, PosInf} THEN bw
                ELSE (bw * spaceHRatio) \div PxUnit,
                spaceV,
                IF ledCount = 0 THEN PosInf ELSE ah \div ledCount - spaceV >>]

---------------------------------------------------------------------------
(* _calcBars, lines 538-637 (whole).  Returns the instance and what was raised. *)

Ok(s)        == [s |-> s, err |-> NoErr]
Raise(s, e)  == [s |-> s, err |-> e]

\* lines 603-606 and 632-636 once the loop over the scale left r
OctaveBars(s0, r) ==
    IF r.err # NoErr THEN Raise([s0 EXCEPT !.bars = r.bars], r.err)
    ELSE IF Len(r.bars) = 0
    THEN \* line 603 divides by 0, line 605 reads bars[0].freqLo
         Raise([s0 EXCEPT !.barWidth = PosInf], "TypeError")
    ELSE Ok(CalcLeds(CalcAux(
           [s0 EXCEPT !.barWidth = (s0.analyzerWidth * PxUnit) \div Len(r.bars),
                      !.bars = PlaceBars(s0, r.bars)])))

\* lines 608-636, s1 having barWidth 1
DiscreteBars(s1) ==
    Ok(CalcLeds(CalcAux(
      [s1 EXCEPT !.bars =
         DiscreteLoop(s1, LogRange(s1),
                      FreqToBin(s1, s1.minFreq * FreqUnit, "floor"),
                      FreqToBin(s1, s1.maxFreq * FreqUnit, "round") + 1,
                      [bars |-> << >>, lastPos |-> -999]).bars])))

CalcBars(s) ==
    IF ~s.ready THEN Ok([s EXCEPT !.bars = << >>])
    ELSE IF s.isOctaveBands
    THEN OctaveBars([s EXCEPT !.bars = << >>], OctaveLoop(s))
    ELSE DiscreteBars([s EXCEPT !.bars = << >>, !.barWidth = PxUnit])

---------------------------------------------------------------------------
(* Gradients: the registry of lines 34-74 and _makeGrad, lines 1077-1137.  *)
(* A color stop is [pos, color]; pos is NoPos for a bare color string.     *)
(* Offsets are in 1/GradOne.                                                *)

GradOne == 100000
NoPos   == -1

Bare(color) == [pos |-> NoPos, color |-> color]

BuiltinGradients ==
    [n \in {"classic", "prism", "rainbow", "purple"} |->
       CASE n = "classic" ->
              [bgColor |-> "#111", dir |-> UNDEF,
               colorStops |-> << Bare("hsl0"), [pos |-> 60000, color |-> "hsl60"],
                                 Bare("hsl120") >>]
         [] n = "prism" ->
              [bgColor |-> "#111", dir |-> UNDEF,
               colorStops |-> << Bare("hsl0"), Bare("hsl60"), Bare("hsl120"),
                                 Bare("hsl180"), Bare("hsl240") >>]
         [] n = "rainbow" ->
              [bgColor |-> "#111", dir |-> "h",
               colorStops |-> << Bare("hsl0"), Bare("hsl60"), Bare("hsl120"),
                                 Bare("hsl180"), Bare("hsl240"), Bare("hsl300"),
                                 Bare("hsl360") >>]
         [] n = "purple" ->
              [bgColor |-> "transparent", dir |-> UNDEF,
               colorStops |-> << Bare("hsl280"), Bare("hsl320"), Bare("hsl280d") >>]]

\* colorInfo.pos !== undefined ? colorInfo.pos : index / maxIndex
StopPos(stops, index) ==
    IF stops[index + 1].pos # NoPos THEN stops[index + 1].pos
    ELSE (index * GradOne) \div (Len(stops) - 1)

\* the stops one iteration of the forEach of lines 1108-1132 adds
GradStops(s, stops, channel, index) ==
    LET maxIndex == Len(stops) - 1
        isHoriz  == s.gradients[s.gradient].dir = "h"
        dual     == s.stereo /\ ~s.splitGradient /\ ~isHoriz
        half     == GradOne \div 2
        o1 == IF dual THEN StopPos(stops, index) \div 2 ELSE StopPos(stops, index)
        scaled == s.stereo /\ ~s.isLumiBars /\ ~s.radial /\ ~isHoriz
        o2 == IF scaled THEN (o1 * (PctOne - s.reflexRatio)) \div PctOne ELSE o1
        o3 == IF scaled /\ ~dual /\ o2 > (half * (PctOne - s.reflexRatio)) \div PctOne
              THEN o2 + (half * s.reflexRatio) \div PctOne ELSE o2
        rev      == channel = 1 /\ (s.radial \/ s.isLumiBars)
        revIndex == maxIndex - index
        color    == IF rev THEN stops[revIndex + 1].color ELSE stops[index + 1].color
        offset   == IF rev THEN GradOne - StopPos(stops, revIndex) \div 2
                    ELSE IF channel = 1 THEN o3 + half ELSE o3
        before   == IF channel = 1 /\ ~rev /\ index = 0 /\ o3 > 0
                    THEN << <<half, color>> >> ELSE << >>
        after    == IF s.stereo /\ index = maxIndex /\ offset < half
                    THEN << <<half, color>> >> ELSE << >>
    IN  before \o << <<offset, color>> >> \o after

RECURSIVE GradAllStops(_, _, _, _)
GradAllStops(s, stops, channel, index) ==
    IF index >= Len(stops) THEN << >>
    ELSE GradStops(s, stops, channel, index) \o GradAllStops(s, stops, channel, index + 1)

MakeGrad(s) ==
    IF ~s.ready THEN s
    ELSE
      LET cur       == s.gradients[s.gradient]
          stops     == cur.colorStops
          isHoriz   == cur.dir = "h"
          dual      == s.stereo /\ ~s.splitGradient /\ ~isHoriz
          centerX   == s.canvasW \div 2
          centerY   == s.canvasH \div 2
          maxRadius == Min2(centerX, centerY)
          gradientHeight ==
              IF s.isLumiBars THEN s.canvasH
              ELSE (s.canvasH * (PctOne - (IF s.stereo THEN 0 ELSE s.reflexRatio))) \div PctOne
          shape == IF s.radial
                   THEN <<"radial", centerX, centerY, maxRadius,
                          s.radius - (IF s.stereo THEN maxRadius - s.radius ELSE 0)>>
                   ELSE IF isHoriz
                   THEN <<"linear", s.initialX, 0, s.initialX + s.analyzerWidth, 0>>
                   ELSE <<"linear", 0, 0, 0, gradientHeight>>
      IN  [s EXCEPT !.canvasGradient =
             [shape |-> shape,
              stops |-> GradAllStops(s, stops, 0, 0)
                        \o (IF dual THEN GradAllStops(s, stops, 1, 0) ELSE << >>)]]

---------------------------------------------------------------------------
(* _setCanvas, lines 1139-1184.  The display has devicePixelRatio 1 and is *)
(* in landscape orientation.                                               *)

\* the rest of a call after a step that may have raised
Then(r, F(_)) == IF r.err # NoErr THEN r ELSE F(r.s)

\* window.screen; the canvas is the fullscreen element (line 143)
Screen == [width |-> 1280, height |-> 720]

SetCanvas(s, reason) ==
    IF ~s.ready THEN Ok(s)
    ELSE
      LET pixelRatio == PxUnit \div ((IF s.loRes THEN 1 ELSE 0) + 1)
          dim(user, client, default) ==
              ((IF user # 0 THEN user ELSE IF client # 0 THEN client ELSE default)
                 * pixelRatio) \div PxUnit
          newWidth  == IF s.fullscreen THEN (Screen.width * pixelRatio) \div PxUnit
                       ELSE dim(s.width, s.containerW, s.defaultWidth)
          newHeight == IF s.fullscreen THEN (Screen.height * pixelRatio) \div PxUnit
                       ELSE dim(s.height, s.containerH, s.defaultHeight)
          s1 == [s EXCEPT !.pixelRatio = pixelRatio]
      IN  IF s.canvasW = newWidth /\ s.canvasH = newHeight THEN Ok(s1)
          ELSE CalcBars(MakeGrad(CalcAux(
                 [s1 EXCEPT !.canvasW = newWidth, !.canvasH = newHeight])))

---------------------------------------------------------------------------
(* Property setters, lines 206-341.  Each returns the instance and the code *)
(* of the error it raised.                                                  *)

\* set fftSize, lines 213-218: value is a power of two the analyser accepts
SetFftSize(s, value) ==
    LET binCount == value \div 2
    IN  CalcBars([s EXCEPT !.fftSize = value,
                           !.fftData = << [i \in 1..binCount |-> 0],
                                          [i \in 1..binCount |-> 0] >>])

\* set gradient, lines 221-226
SetGradient_AssignFirst(s, value) ==
    IF value \notin DOMAIN s.gradients
    THEN Raise([s EXCEPT !.gradient = value], "ERR_UNKNOWN_GRADIENT")
    ELSE Ok(MakeGrad([s EXCEPT !.gradient = value]))

SetGradient(s, value) ==
    IF value \notin DOMAIN s.gradients THEN Raise(s, "ERR_UNKNOWN_GRADIENT")
    ELSE Ok(MakeGrad([s EXCEPT !.gradient = value]))

\* set ledBars, line 232
SetLedBars(s, value) == Ok(CalcAux([s EXCEPT !.showLeds = value]))

\* set lumiBars, lines 238-243
SetLumiBars(s, value) == Ok(MakeGrad(CalcLeds(CalcAux([s EXCEPT !.lumiBars = value]))))

\* set maxFreq, lines 249-253
SetMaxFreq(s, value) ==
    IF value < 1 THEN Raise(s, "ERR_FREQUENCY_TOO_LOW")
    ELSE CalcBars([s EXCEPT !.maxFreq = value])

\* set minFreq, lines 259-263
SetMinFreq(s, value) ==
    IF value < 1 THEN Raise(s, "ERR_FREQUENCY_TOO_LOW")
    ELSE CalcBars([s EXCEPT !.minFreq = value])

\* set mode, lines 274-283
SetMode(s, value) ==
    LET mode == ToInt32(value)
    IN  IF mode >= 0 /\ mode <= 10 /\ mode # 9
        THEN Then(CalcBars(CalcAux([s EXCEPT !.mode = mode])), LAMBDA x : Ok(MakeGrad(x)))
        ELSE Raise(s, "ERR_INVALID_MODE")

\* set reflexRatio, lines 297-305: value in 1/PctOne
SetReflexRatio(s, value) ==
    IF value < 0 \/ value >= PctOne THEN Raise(s, "ERR_REFLEX_OUT_OF_RANGE")
    ELSE Ok(CalcLeds(MakeGrad(CalcAux([s EXCEPT !.reflexRatio = value]))))

\* setFreqRange( min, max ), lines 459-465
SetFreqRange(s, min, max) ==
    IF min < 1 \/ max < 1 THEN Raise(s, "ERR_FREQUENCY_TOO_LOW")
    ELSE CalcBars([s EXCEPT !.minFreq = Min2(min, max), !.maxFreq = Max2(min, max)])

---------------------------------------------------------------------------
(* registerGradient, lines 438-451.                                        *)
(* name:    [isString, text]                                               *)
(* options: [kind, hasStops, colorStops, bgColor, dir], kind one of        *)
(*          "other" (typeof is not 'object'), "null", "object"             *)

\* name.trim() for the names the model passes
Trim(text) == IF text \in {"", " ", "  "} THEN "" ELSE text

RegisterGradient_WriteFirst(s, name, options) ==
    IF ~name.isString \/ Trim(name.text) = ""
    THEN Raise(s, "ERR_GRADIENT_INVALID_NAME")
    ELSE IF options.kind = "other" THEN Raise(s, "ERR_GRADIENT_NOT_AN_OBJECT")
    ELSE IF options.kind = "null" THEN Raise(s, "TypeError")
    ELSE
      LET s1 == [s EXCEPT !.gradients =
                    [n \in DOMAIN s.gradients \cup {name.text} |->
                       IF n = name.text
                       THEN [bgColor |-> IF options.bgColor = "" THEN "#111"
                                         ELSE options.bgColor,
                             dir |-> options.dir, colorStops |-> options.colorStops]
                       ELSE s.gradients[n]]]
      IN  IF ~options.hasStops \/ Len(options.colorStops) < 2
          THEN Raise(s1, "ERR_GRADIENT_MISSING_COLOR")
          ELSE IF name.text = s.gradient THEN Ok(MakeGrad(s1)) ELSE Ok(s1)

RegisterGradient(s, name, options) ==
    IF ~name.isString \/ Trim(name.text) = ""
    THEN Raise(s, "ERR_GRADIENT_INVALID_NAME")
    ELSE IF options.kind = "other" THEN Raise(s, "ERR_GRADIENT_NOT_AN_OBJECT")
    ELSE IF options.kind = "null" THEN Raise(s, "TypeError")
    ELSE IF ~options.hasStops \/ Len(options.colorStops) < 2
    THEN Raise(s, "ERR_GRADIENT_MISSING_COLOR")
    ELSE
      LET s1 == [s EXCEPT !.gradients =
                    [n \in DOMAIN s.gradients \cup {name.text} |->
                       IF n = name.text
                       THEN [bgColor |-> IF options.bgColor = "" THEN "#111"
                                         ELSE options.bgColor,
                             dir |-> options.dir, colorStops |-> options.colorStops]
                       ELSE s.gradients[n]]]
      IN  IF name.text = s.gradient THEN Ok(MakeGrad(s1)) ELSE Ok(s1)

---------------------------------------------------------------------------
(* toggleAnalyzer, lines 487-500, and the browser's animation frames.      *)
(* A world is [am, pending, nextId, lastStop]: the instance, the ids of the *)
(* callbacks the browser holds, the next id it hands out, and whether the   *)
(* latest toggleAnalyzer call asked for off.  runId is NoId for undefined. *)

NoId == 0

\* get isOn, line 359
IsOn(s) == s.runId # NoId

ToggleAnalyzer(w, value) ==
    LET started == IsOn(w.am)
        v       == IF value = UNDEF THEN ~started ELSE value = "true"
    IN  IF started /\ ~v
        THEN \* cancelAnimationFrame( this._runId ); this._runId = undefined
             [w EXCEPT !.pending = @ \ {w.am.runId},
                       !.am.runId = NoId,
                       !.lastStop = TRUE]
        ELSE IF ~started /\ v
        THEN \* this._runId = requestAnimationFrame( ... )
             [w EXCEPT !.am.runId = w.nextId,
                       !.pending = @ \cup {w.nextId},
                       !.nextId = @ + 1,
                       !.lastStop = FALSE]
        ELSE [w EXCEPT !.lastStop = ~v]

---------------------------------------------------------------------------
(* _draw, lines 727-1069: the state it changes.  Values in 1/ValOne.       *)

HoldFrames == 30

\* fftData[ bin ] in 1/ValOne ( = byte / 255 ); NaN for an index outside the
\* Uint8Array (undefined)
Fft(d, bin) == IF bin >= 0 /\ bin < Len(d) THEN d[bin + 1] * RatioOne ELSE NaN

\* interpolate = ( bin, ratio ) => fftData[ bin ] + ( fftData[ bin + 1 ] - fftData[ bin ] ) * ratio
Interpolate(d, bin, ratio) ==
    IF IsNaN(Fft(d, bin)) \/ IsNaN(Fft(d, bin + 1)) THEN NaN
    ELSE Fft(d, bin) + ((Fft(d, bin + 1) - Fft(d, bin)) * ratio) \div RatioOne

\* Math.max( a, b )
MathMax(a, b) == IF IsNaN(a) \/ IsNaN(b) THEN NaN ELSE Max2(a, b)

\* the scan of lines 864-866 over the bins a .. b-1
RECURSIVE ScanBins(_, _, _, _)
ScanBins(d, a, b, barHeight) ==
    IF a >= b THEN barHeight
    ELSE IF b - a = 1
    THEN (IF ~IsNaN(barHeight) /\ ~IsNaN(Fft(d, a)) /\ Fft(d, a) > barHeight
          THEN Fft(d, a) ELSE barHeight)
    ELSE LET mid  == (a + b) \div 2
             left == ScanBins(d, a, mid, barHeight)
         IN  IF IsNaN(left) THEN left ELSE ScanBins(d, mid, b, left)

\* barHeight of lines 863-868
BarHeight(d, bar) ==
    ScanBins(d, bar.binLo + 1, bar.binHi,
             MathMax(Interpolate(d, bar.binLo, bar.ratioLo),
                     Interpolate(d, bar.binHi, bar.ratioHi)))

\* maxBarHeight of line 752, in pixels
MaxBarHeight(s) ==
    IF s.radial THEN Min2(s.canvasW \div 2, s.canvasH \div 2) - s.radius
    ELSE s.analyzerHeight

\* lines 872-879 for channel c - 1 of a bar whose value is set
PeakHold(s, bar, c) ==
    LET decays == ~IsNaN(bar.peak[c]) /\ bar.peak[c] > 0
        held   == IF decays THEN [bar EXCEPT !.hold = SetAt(@, c, bar.hold[c] - 1)]
                  ELSE bar
        fallen == IF decays /\ held.hold[c] < 0
                  THEN [held EXCEPT !.peak[c] =
                          IF MaxBarHeight(s) = 0 THEN NegInf
                          ELSE @ + (held.hold[c] * ValOne) \div MaxBarHeight(s)]
                  ELSE held
    IN  IF ~IsNaN(bar.value[c]) /\ ~IsNaN(fallen.peak[c])
             /\ bar.value[c] >= fallen.peak[c]
        THEN [fallen EXCEPT !.peak[c] = bar.value[c], !.hold = SetAt(@, c, HoldFrames)]
        ELSE fallen

\* lines 860-879 with the bar's low edge snapped to its bin
UpdateBar_SnapsEdge(s, bar, channel, d) ==
    PeakHold(s, [bar EXCEPT !.value = SetAt(@, channel + 1, BarHeight(d, bar)),
                            !.ratioLo = 0],
             channel + 1)

\* lines 860-879 for one bar and one channel (channel 0 or 1)
UpdateBar(s, bar, channel, d) ==
    PeakHold(s, [bar EXCEPT !.value = SetAt(@, channel + 1, BarHeight(d, bar))],
             channel + 1)

AddNaN(a, b) == IF IsNaN(a) \/ IsNaN(b) THEN NaN ELSE a + b

\* currentEnergy += bar.value[ channel ] over the bars a .. b-1 (line 870)
RECURSIVE SumValues(_, _, _, _)
SumValues(bars, c, a, b) ==
    IF a >= b THEN 0
    ELSE IF b - a = 1 THEN bars[a].value[c]
    ELSE LET mid == (a + b) \div 2
         IN  AddNaN(SumValues(bars, c, a, mid), SumValues(bars, c, mid, b))

\* lines 1020-1025 with the peak taken only by a value above it
UpdateEnergy_StrictPeak(energy, currentEnergy, count) ==
    LET val == IF count = 0 \/ IsNaN(currentEnergy) THEN NaN
               ELSE currentEnergy \div count
    IN  IF ~IsNaN(val) /\ ~IsNaN(energy.peak) /\ val > energy.peak
        THEN [val |-> val, peak |-> val, hold |-> HoldFrames]
        ELSE IF energy.hold > 0
        THEN [energy EXCEPT !.val = val, !.hold = @ - 1]
        ELSE IF ~IsNaN(energy.peak) /\ energy.peak > 0
        THEN [val |-> val,
              peak |-> (energy.peak * (HoldFrames + energy.hold)) \div HoldFrames,
              hold |-> energy.hold - 1]
        ELSE [energy EXCEPT !.val = val]

\* lines 1020-1025
UpdateEnergy(energy, currentEnergy, count) ==
    LET val == IF count = 0 \/ IsNaN(currentEnergy) THEN NaN
               ELSE currentEnergy \div count
    IN  IF ~IsNaN(val) /\ ~IsNaN(energy.peak) /\ val >= energy.peak
        THEN [val |-> val, peak |-> val, hold |-> HoldFrames]
        ELSE IF energy.hold > 0
        THEN [energy EXCEPT !.val = val, !.hold = @ - 1]
        ELSE IF ~IsNaN(energy.peak) /\ energy.peak > 0
        THEN [val |-> val,
              peak |-> (energy.peak * (HoldFrames + energy.hold)) \div HoldFrames,
              hold |-> energy.hold - 1]
        ELSE [energy EXCEPT !.val = val]

\* one channel's pass of the loop of lines 859-971 over all bars
UpdateBars(s, bars, channel, d) ==
    [k \in 1..Len(bars) |-> UpdateBar(s, bars[k], channel, d)]

\* the per-frame hook: the toggleAnalyzer calls onCanvasDraw makes, in order
RECURSIVE RunHook(_, _)
RunHook(w, hook) ==
    IF hook = << >> THEN w
    ELSE RunHook(ToggleAnalyzer(w, Head(hook)), Tail(hook))

\* line 898 reads this._bars[1].binLo for the first bar
DrawThrows(s) == s.mode = 10 /\ s.useCanvas /\ Len(s.bars) = 1

\* the loop of lines 836-1018 over the channels
AllChannels(s, data) ==
    IF s.stereo THEN UpdateBars(s, UpdateBars(s, s.bars, 0, data[1]), 1, data[2])
    ELSE UpdateBars(s, s.bars, 0, data[1])

\* currentEnergy of line 1020
CurrentEnergy(s, bars) ==
    AddNaN(SumValues(bars, 1, 1, Len(bars) + 1),
           IF s.stereo THEN SumValues(bars, 2, 1, Len(bars) + 1) ELSE 0)

\* the instance after lines 836-1025 of a frame that left `bars`
AfterBars(s, bars, data) ==
    [s EXCEPT !.fftData = IF s.stereo THEN data ELSE <<data[1], @[2]>>,
              !.bars    = bars,
              !.energy  = UpdateEnergy(s.energy, CurrentEnergy(s, bars),
                                       Len(bars) * (IF s.stereo THEN 2 ELSE 1))]

\* line 1068: this._runId = requestAnimationFrame( ... )
Reschedule(w) ==
    [w EXCEPT !.am.runId = w.nextId, !.pending = @ \cup {w.nextId}, !.nextId = @ + 1]

\* the animation-frame callback `id` runs _draw; data[c] is what
\* getByteFrequencyData writes for channel c - 1, hook the toggleAnalyzer
\* calls onCanvasDraw makes
DrawFrame(w, id, data, hook) ==
    IF DrawThrows(w.am)
    THEN [w |-> [w EXCEPT !.pending = @ \ {id},
                          !.am.fftData[1] = data[1],
                          !.am.bars = << UpdateBar(w.am, w.am.bars[1], 0, data[1]) >>],
          err |-> "TypeError"]
    ELSE [w |-> Reschedule(RunHook(
                  [w EXCEPT !.am = AfterBars(w.am, AllChannels(w.am, data), data),
                            !.pending = @ \ {id}], hook)),
          err |-> NoErr]

---------------------------------------------------------------------------
(* The remaining setters the constructor runs, lines 206-341 *)

\* set alphaBars, line 207
SetAlphaBars(s, value) == Ok(CalcAux([s EXCEPT !.alphaBars = value]))

\* set barSpace, line 210: value in 1/PxUnit
SetBarSpace(s, value) == Ok(CalcAux([s EXCEPT !.barSpace = value]))

\* set loRes, line 235
SetLoRes(s, value) == SetCanvas([s EXCEPT !.loRes = value], "lores")

\* set mirror, lines 266-271: Math.sign( value ) | 0
SetMirror(s, value) ==
    Then(CalcBars(CalcAux([s EXCEPT !.mirror = IF value > 0 THEN 1
                                                ELSE IF value < 0 THEN -1 ELSE 0])),
         LAMBDA x : Ok(MakeGrad(x)))

\* set outlineBars, line 286
SetOutlineBars(s, value) == Ok(CalcAux([s EXCEPT !.outlineBars = value]))

\* set radial, lines 289-294
SetRadial(s, value) ==
    Then(CalcBars(CalcAux([s EXCEPT !.radial = value])), LAMBDA x : Ok(MakeGrad(x)))

\* set splitGradient, line 321
SetSplitGradient(s, value) == Ok(MakeGrad([s EXCEPT !.splitGradient = value]))

---------------------------------------------------------------------------
(* The audio graph.  A node is [of, n]: the instance's own nodes and the    *)
(* nodes handed to it have n = 0, the n-th MediaElementAudioSourceNode      *)
(* created for the media element e is [of |-> e, n |-> n].  A connection is *)
(* [src, out, dst, inp]; the graph holds a connection at most once, and     *)
(* connecting twice is a no-op in the Web Audio API.                        *)

Node(name)   == [of |-> name, n |-> 0]
InputGain    == Node("input")
OutputGain   == Node("output")
Splitter     == Node("splitter")
Merger       == Node("merger")
Destination  == Node("destination")
NoNode       == Node("undefined")
Analyzer(i)  == Node(IF i = 0 THEN "analyzer0" ELSE "analyzer1")

\* src.connect( dst, out, inp )
Connect(edges, src, dst, out, inp) ==
    edges \cup {[src |-> src, out |-> out, dst |-> dst, inp |-> inp]}

\* src.disconnect()
DisconnectAll(edges, src) == {e \in edges : e.src # src}

\* src.disconnect( dst )
DisconnectFrom(edges, src, dst) == {e \in edges : ~(e.src = src /\ e.dst = dst)}

\* Array.prototype.includes
Includes(list, x) == \E i \in DOMAIN list : list[i] = x

\* set stereo, lines 326-330
RouteStereo(s) ==
    [s EXCEPT !.edges =
        IF Len(s.outNodes) # 0
        THEN Connect(DisconnectAll(
                        Connect(DisconnectAll(@, InputGain), InputGain,
                                IF s.stereo THEN Splitter ELSE Analyzer(0), 0, 0),
                        Analyzer(0)),
                     Analyzer(0), IF s.stereo THEN Merger ELSE OutputGain, 0, 0)
        ELSE DisconnectAll(
                Connect(DisconnectAll(@, InputGain), InputGain,
                        IF s.stereo THEN Splitter ELSE Analyzer(0), 0, 0),
                Analyzer(0))]

\* connectOutput( node ), lines 379-387
ConnectOutput(s, node) ==
    IF Includes(s.outNodes, node) THEN s
    ELSE [s EXCEPT
            !.outNodes = Append(@, node),
            !.edges = IF Len(s.outNodes) = 0
                      THEN Connect(Connect(Connect(@, OutputGain, node, 0, 0),
                                   Analyzer(0),
                                   IF ~s.stereo THEN OutputGain ELSE Merger, 0, 0),
                                   Analyzer(1), Merger, 0, 1)
                      ELSE Connect(@, OutputGain, node, 0, 0)]

\* disconnectOutput( node ), lines 401-408; node is NoNode when omitted,
\* and output.disconnect( undefined ) disconnects output 0
DisconnectOutput(s, node) ==
    IF node # NoNode /\ ~Includes(s.outNodes, node) THEN s
    ELSE IF node = NoNode \/ \A i \in DOMAIN s.outNodes : s.outNodes[i] = node
    THEN [s EXCEPT
            !.outNodes = << >>,
            !.edges = DisconnectAll(DisconnectAll(DisconnectAll(@, OutputGain),
                                    Analyzer(0)), Analyzer(1))]
    ELSE [s EXCEPT
            !.outNodes = SelectSeq(@, LAMBDA e : e # node),
            !.edges = DisconnectFrom(@, OutputGain, node)]

\* connectInput( source ), lines 367-377.  source is [kind, id] with kind
\* "element" (an HTMLMediaElement), "node" (an AudioNode) or anything else.
\* createMediaElementSource on an element that already has a source node
\* raises InvalidStateError in a strict browser and returns a further node
\* in a lenient one.
SourceNode(s, source) ==
    IF source.kind = "element"
    THEN [of |-> source.id, n |-> s.created[source.id] + 1]
    ELSE Node(source.id)

ConnectInput(s, source, strict) ==
    IF source.kind \notin {"element", "node"}
    THEN Raise(s, "ERR_INVALID_AUDIO_SOURCE")
    ELSE IF source.kind = "element" /\ strict /\ s.created[source.id] > 0
    THEN Raise(s, "InvalidStateError")
    ELSE IF Includes(s.sources, SourceNode(s, source)) THEN Ok(s)
    ELSE Ok([s EXCEPT
            !.created = IF source.kind = "element"
                        THEN [@ EXCEPT ![source.id] = @ + 1] ELSE @,
            !.sources = Append(@, SourceNode(s, source)),
            !.edges = Connect(@, SourceNode(s, source), InputGain, 0, 0)])

\* disconnectInput( sources ), lines 389-399; nodes is the set of the nodes
\* passed, all the connected ones when the argument is omitted
DisconnectInput(s, nodes) ==
    [s EXCEPT
        !.sources = SelectSeq(@, LAMBDA e : e \notin nodes),
        !.edges = {e \in @ : ~(e.src \in nodes /\ Includes(s.sources, e.src)
                                 /\ e.dst = InputGain)}]

\* set stereo, lines 324-335
SetStereo(s, value) ==
    Ok(MakeGrad(CalcLeds(CalcAux(RouteStereo([s EXCEPT !.stereo = value])))))

---------------------------------------------------------------------------
(* The constructor, lines 28-202, and _setProps, lines 1186-1243 *)

\* const defaults, lines 1187-1223, with the environment of the instance:
\* the audio context's sample rate and the container's client size
DefaultOptions ==
    [sampleRate |-> 44100, containerW |-> 640, containerH |-> 270,
     alphaBars |-> FALSE, barSpace |-> 100, fftSize |-> 8192, gradient |-> "classic",
     ledBars |-> FALSE, loRes |-> FALSE, lumiBars |-> FALSE, maxFreq |-> 22000,
     minFreq |-> 20, mirror |-> 0, mode |-> 0, outlineBars |-> FALSE,
     radial |-> FALSE, reflexRatio |-> 0, splitGradient |-> FALSE,
     start |-> "true", stereo |-> FALSE, useCanvas |-> TRUE,
     width |-> 0, height |-> 0, connectSpeakers |-> TRUE]

\* the instance before _setProps runs: a 300 x 150 canvas, nothing derived
\* yet, the resize and fullscreenchange listeners of lines 157-179 registered.
\* timers holds the timeouts the window has pending for these listeners, as
\* [id, kind]; fullscreen is whether the canvas is the fullscreen element.
Elements == {"audio"}

\* lines 119-128: splitter -> analyzers, merger -> output, output -> speakers
Wired(s, o) ==
    IF o.connectSpeakers THEN ConnectOutput(s, Destination) ELSE s

Blank(o) == Wired(
    [ready |-> FALSE, sampleRate |-> o.sampleRate, gradients |-> BuiltinGradients,
     containerW |-> o.containerW, containerH |-> o.containerH,
     defaultWidth  |-> IF o.containerW # 0 THEN o.containerW ELSE 640,
     defaultHeight |-> IF o.containerH # 0 THEN o.containerH ELSE 270,
     width |-> 0, height |-> 0, canvasW |-> 300, canvasH |-> 150,
     pixelRatio |-> PxUnit, loRes |-> FALSE,
     fftSize |-> 2048, fftData |-> << << >>, << >> >>,
     gradient |-> "", canvasGradient |-> [shape |-> << >>, stops |-> << >>],
     mode |-> 0, minFreq |-> 0, maxFreq |-> 0, mirror |-> 0, radial |-> FALSE,
     stereo |-> FALSE, showLeds |-> FALSE, lumiBars |-> FALSE, alphaBars |-> FALSE,
     outlineBars |-> FALSE, splitGradient |-> FALSE, reflexRatio |-> 0,
     barSpace |-> 0, ledParams |-> << >>, leds |-> << >>,
     radius |-> 0, barSpacePx |-> NaN, isOctaveBands |-> TRUE, isLedDisplay |-> FALSE,
     isLumiBars |-> FALSE, isAlphaBars |-> FALSE, isOutline |-> FALSE,
     maximizeLeds |-> TRUE, channelHeight |-> 150, analyzerHeight |-> 150,
     channelGap |-> 0, analyzerWidth |-> 300, initialX |-> 0,
     barWidth |-> NaN, bars |-> << >>,
     energy |-> [val |-> 0, peak |-> 0, hold |-> 0],
     runId |-> NoId, useCanvas |-> TRUE,
     listening |-> TRUE, fullscreen |-> FALSE, fsChanging |-> FALSE,
     fsTimeout |-> 0, timers |-> {},
     sources |-> << >>, outNodes |-> << >>, created |-> [e \in Elements |-> 0],
     edges |-> {[src |-> Splitter, out |-> 0, dst |-> Analyzer(0), inp |-> 0],
                [src |-> Splitter, out |-> 1, dst |-> Analyzer(1), inp |-> 0],
                [src |-> Merger, out |-> 0, dst |-> OutputGain, inp |-> 0]}], o)

\* the keys of { ...defaults, ...options } that change the modelled state,
\* in the order the loop of lines 1234-1239 walks them
PropOrder ==
    << "alphaBars", "barSpace", "fftSize", "gradient", "ledBars", "loRes",
       "lumiBars", "maxFreq", "minFreq", "mirror", "mode", "outlineBars",
       "radial", "reflexRatio", "splitGradient", "stereo", "useCanvas",
       "height", "width" >>

\* this[ prop ] = options[ prop ], line 1238
AssignProp(s, o, prop) ==
    CASE prop = "alphaBars"     -> SetAlphaBars(s, o.alphaBars)
      [] prop = "barSpace"      -> SetBarSpace(s, o.barSpace)
      [] prop = "fftSize"       -> SetFftSize(s, o.fftSize)
      [] prop = "gradient"      -> SetGradient(s, o.gradient)
      [] prop = "ledBars"       -> SetLedBars(s, o.ledBars)
      [] prop = "loRes"         -> SetLoRes(s, o.loRes)
      [] prop = "lumiBars"      -> SetLumiBars(s, o.lumiBars)
      [] prop = "maxFreq"       -> SetMaxFreq(s, o.maxFreq)
      [] prop = "minFreq"       -> SetMinFreq(s, o.minFreq)
      [] prop = "mirror"        -> SetMirror(s, o.mirror)
      [] prop = "mode"          -> SetMode(s, o.mode)
      [] prop = "outlineBars"   -> SetOutlineBars(s, o.outlineBars)
      [] prop = "radial"        -> SetRadial(s, o.radial)
      [] prop = "reflexRatio"   -> SetReflexRatio(s, o.reflexRatio)
      [] prop = "splitGradient" -> SetSplitGradient(s, o.splitGradient)
      [] prop = "stereo"        -> SetStereo(s, o.stereo)
      [] prop = "useCanvas"     -> Ok([s EXCEPT !.useCanvas = o.useCanvas])
      [] prop = "height"        -> SetCanvas([s EXCEPT !.height = o.height], "user")
      [] prop = "width"         -> SetCanvas([s EXCEPT !.width = o.width], "user")

\* the loop of lines 1234-1239 from the k-th key on; an assignment that
\* raises ends it
RECURSIVE SetPropsFrom(_, _, _)
NextProp(r, o, k) == IF r.err # NoErr THEN r ELSE SetPropsFrom(r.s, o, k + 1)

SetPropsFrom(s, o, k) ==
    IF k > Len(PropOrder) THEN Ok(s)
    ELSE NextProp(AssignProp(s, o, PropOrder[k]), o, k)

\* _setProps( options, useDefaults ) as the constructor calls it
SetProps(s, o) == SetPropsFrom(s, o, 1)

\* new AudioMotionAnalyzer( container, options ): the world it leaves, and
\* what it raised
NewWorld(s) == [am |-> s, pending |-> {}, nextId |-> 1, lastStop |-> FALSE]

\* lines 200-201: this._ready = true; this._setCanvas( 'create' )
Mounted(w, r) == [w |-> [w EXCEPT !.am = r.s], err |-> r.err]

\* lines 1241-1242, then lines 200-201
Started(w) == Mounted(w, SetCanvas([w.am EXCEPT !.ready = TRUE], "create"))

Created(r, o) ==
    IF r.err # NoErr THEN [w |-> NewWorld(r.s), err |-> r.err]
    ELSE Started(IF o.start = UNDEF THEN NewWorld(r.s)
                 ELSE ToggleAnalyzer(NewWorld(r.s), o.start))

Construct(o) == Created(SetProps(CalcAux(Blank(o)), o), o)

---------------------------------------------------------------------------
(* The state machine *)

World == [am |-> am, pending |-> pending, nextId |-> nextId, lastStop |-> lastStop]

SetWorld(w) ==
    /\ am' = w.am
    /\ pending' = w.pending
    /\ nextId' = w.nextId
    /\ lastStop' = w.lastStop
    /\ UNCHANGED <<main, ui>>

\* a call on the instance that touches no animation frame
Returns(op, args, r) ==
    \E x \in {r} :
        /\ call' = [op |-> op, args |-> args]
        /\ am' = x.s
        /\ err' = x.err
    /\ UNCHANGED <<pending, nextId, lastStop, main, ui>>

\* the state after new AudioMotionAnalyzer( container, o ) returned
InitWith(options) ==
    \E o \in options : \E c \in {Construct(o)} :
            /\ c.err = NoErr
            /\ am = c.w.am
            /\ pending = c.w.pending
            /\ nextId = c.w.nextId
            /\ lastStop = c.w.lastStop
            /\ call = [op |-> "constructor", args |-> << >>]
            /\ err = NoErr
            /\ main = MainIdle
            /\ ui = UiIdle

set_fftSize(v)     == Returns("set fftSize", <<v>>, SetFftSize(am, v))
set_gradient(v)    == Returns("set gradient", << >>, SetGradient(am, v))
set_ledBars(v)     == Returns("set ledBars", << >>, SetLedBars(am, v))
set_maxFreq(v)     == Returns("set maxFreq", <<v>>, SetMaxFreq(am, v))
set_minFreq(v)     == Returns("set minFreq", <<v>>, SetMinFreq(am, v))
set_mode(v)        == Returns("set mode", <<v>>, SetMode(am, v))
set_reflexRatio(v) == Returns("set reflexRatio", <<v>>, SetReflexRatio(am, v))
setFreqRange(min, max) ==
    Returns("setFreqRange", <<min, max>>, SetFreqRange(am, min, max))
registerGradient(name, options) ==
    Returns("registerGradient", << >>, RegisterGradient(am, name, options))

toggleAnalyzer(v) ==
    /\ call' = [op |-> "toggleAnalyzer", args |-> << >>]
    /\ err' = NoErr
    /\ \E w \in {ToggleAnalyzer(World, v)} : SetWorld(w)

\* the browser runs the animation-frame callback `id`
draw(id, data, hook) ==
    /\ id \in pending
    /\ \E r \in {DrawFrame(World, id, data, hook)} :
           /\ call' = [op |-> "_draw", args |-> << >>]
           /\ err' = r.err
           /\ SetWorld(r.w)

---------------------------------------------------------------------------
(* Geometry: mode, FFT size and frequency range *)

GeomModes  == {0, 3, 6, 8, 10}
GeomRanges == {<<20, 30000>>, <<10, 10>>, <<3000, 20>>, <<0, 20>>}
GeomFfts   == {32, 512}

\* fftSize 32 stands for the default of 8192: the bin arithmetic is the same
GeomOptions == {[DefaultOptions EXCEPT !.fftSize = 32]}

InitGeom == InitWith(GeomOptions)

NextGeom ==
    \/ \E v \in GeomModes : set_mode(v)
    \/ \E v \in {3000} : set_minFreq(v)
    \/ \E v \in {10} : set_maxFreq(v)
    \/ \E r \in GeomRanges : setFreqRange(r[1], r[2])
    \/ \E v \in GeomFfts : set_fftSize(v)

SpecGeom == InitGeom /\ [][NextGeom]_vars

\* the bars a and b = the next one of the list
Adjacent(bars, P(_, _)) == \A k \in 1..(Len(bars) - 1) : P(bars[k], bars[k + 1])

\* C1 as the spec states it: in every state the bars have strictly
\* increasing posX, binLo <= binHi, and for adjacent bars a, b both
\* a.binLo <= b.binLo and a.binHi < b.binLo
C1_Original ==
    /\ \A k \in 1..Len(am.bars) : am.bars[k].binLo <= am.bars[k].binHi
    /\ Adjacent(am.bars, LAMBDA a, b : /\ a.posX < b.posX
                                       /\ a.binLo <= b.binLo
                                       /\ a.binHi < b.binLo)

\* C1 amended: in every state the bars have strictly increasing posX,
\* binLo <= binHi, and for adjacent bars a, b both a.binLo <= b.binLo and
\* a.binHi <= b.binLo (adjacent octave bands may share their boundary bin)
C1_Geometry ==
    /\ \A k \in 1..Len(am.bars) : am.bars[k].binLo <= am.bars[k].binHi
    /\ Adjacent(am.bars, LAMBDA a, b : /\ a.posX < b.posX
                                       /\ a.binLo <= b.binLo
                                       /\ a.binHi <= b.binLo)

\* a successful setter left octave bands of which two share a bin and two
\* were separated by gap filling
C1_Witness ==
    /\ err = NoErr
    /\ call.op \in {"set mode", "set fftSize", "setFreqRange"}
    /\ am.isOctaveBands
    /\ \E k \in 1..(Len(am.bars) - 1) : am.bars[k].binHi = am.bars[k + 1].binLo
    /\ \E k \in 1..(Len(am.bars) - 1) :
          /\ am.bars[k].ratioHi = 0
          /\ am.bars[k + 1].binLo = am.bars[k].binHi + 1
          /\ am.bars[k + 1].binLo < am.bars[k + 1].binHi

\* C7 as the spec states it: setFreqRange( min, max ) with both arguments at
\* least 1 returns with minFreq the smaller and maxFreq the larger argument
\* and with the bars rebuilt for them; with an argument below 1 it raises
\* ERR_FREQUENCY_TOO_LOW and leaves the instance as it was
C7_SetFreqRange ==
    [][call'.op = "setFreqRange" =>
         IF call'.args[1] < 1 \/ call'.args[2] < 1
         THEN err' = "ERR_FREQUENCY_TOO_LOW" /\ am' = am
         ELSE /\ err' = NoErr
              /\ am'.minFreq = Min2(call'.args[1], call'.args[2])
              /\ am'.maxFreq = Max2(call'.args[1], call'.args[2])
              /\ am'.bars = CalcBars(am').s.bars]_vars

\* C10 as the spec states it: both fftData arrays always have length
\* fftSize / 2, and an assignment to fftSize returns with the size stored,
\* both arrays fresh and the bars rebuilt
C10_FftData ==
    /\ Len(am.fftData[1]) = am.fftSize \div 2
    /\ Len(am.fftData[2]) = am.fftSize \div 2
    /\ call.op = "set fftSize" =>
         /\ err = NoErr
         /\ am.fftSize = call.args[1]
         /\ \A c \in 1..2 : \A k \in 1..Len(am.fftData[c]) : am.fftData[c][k] = 0
         /\ am.bars = CalcBars(am).s.bars

---------------------------------------------------------------------------
(* Mode: every value assigned to mode, over ranges with and without bars *)

ModeInputs == -1..11
ModeRanges == {<<20, 30000>>, <<10, 10>>, <<3000, 3000>>}

InitMode == InitWith(GeomOptions)

NextMode ==
    \/ \E v \in ModeInputs : set_mode(v)
    \/ \E r \in ModeRanges : setFreqRange(r[1], r[2])

SpecMode == InitMode /\ [][NextMode]_vars

\* C8 as the spec states it: mode is always one of 0..8 and 10; assigning
\* one of these ten values returns with it stored, assigning 9 or a value
\* outside [0, 10] raises ERR_INVALID_MODE
C8_Mode ==
    /\ am.mode \in ValidModes
    /\ call.op = "set mode" =>
         IF call.args[1] \in ValidModes
         THEN err = NoErr /\ am.mode = call.args[1]
         ELSE err = "ERR_INVALID_MODE"

---------------------------------------------------------------------------
(* Animation: frames, the per-frame hook, and toggleAnalyzer *)

\* no more animation frames are requested once the browser has handed out
\* this many ids
MaxRafId == 4
\* the most toggleAnalyzer calls one onCanvasDraw hook makes
MaxHookCalls == 2

RunModes  == {0, 8, 10}
RunRanges == {<<20, 30000>>, <<2500, 2500>>, <<3000, 3000>>}

\* what getByteFrequencyData may write into an array of n bytes
FftPatterns(n) ==
    { [k \in 1..n |-> 0], [k \in 1..n |-> 255],
      [k \in 1..n |-> IF k = 3 THEN 200 ELSE 10] }

\* the sequences of toggleAnalyzer arguments a hook may pass
HookScripts ==
    UNION { [1..n -> {"true", "false"}] : n \in 0..MaxHookCalls }

RunOptions ==
    {[DefaultOptions EXCEPT !.fftSize = 32, !.mode = m, !.start = st] :
        m \in RunModes, st \in {"true", "false"}}

InitRun == InitWith(RunOptions)

NextRun ==
    \/ \E v \in {"true", "false", UNDEF} :
          nextId <= MaxRafId /\ toggleAnalyzer(v)
    \/ \E id \in pending, d \in FftPatterns(BinCount(am)), hook \in HookScripts :
          nextId <= MaxRafId /\ draw(id, <<d, d>>, hook)
    \/ \E r \in RunRanges : setFreqRange(r[1], r[2])

SpecRun == InitRun /\ [][NextRun]_vars


\* C2 as the spec states it: a frame (_draw) of a configuration reached
\* through the constructor and setter calls that did not raise runs to
\* completion without raising, whatever the number of bars in mode 10.
C2_DrawCompletes ==
    call.op = "_draw" => err = NoErr

\* C3 as the spec states it: every bar's value of every channel and the
\* instantaneous energy are numbers in [0, 1], never NaN, also when there
\* are no bars or a bar ends at the last bin of the array.
C3_Normalised ==
    /\ \A k \in 1..Len(am.bars) : \A c \in 1..(IF am.stereo THEN 2 ELSE 1) :
          am.bars[k].value[c] \in 0..ValOne
    /\ am.energy.val \in 0..ValOne

\* C4 as the spec states it: at most one animation-frame callback is
\* pending, and isOn is true exactly when one is pending.
C4_OnePending ==
    /\ Cardinality(pending) <= 1
    /\ IsOn(am) <=> pending # {}

\* C5 as the spec states it: when the latest toggleAnalyzer call, made
\* between frames or by the per-frame hook, asked to stop, isOn is false and
\* no callback is pending, so no frame is drawn until the next start.
C5_StopStops ==
    lastStop => ~IsOn(am) /\ pending = {}

---------------------------------------------------------------------------
(* Validation in the setters *)

SetterGradients == {"classic", "prism", "rainbow", "nope"}
SetterFreqs     == {0, 20, 3000}
SetterModes     == {-1, 0, 3, 9, 10, 11}
SetterRatios    == {-10, 0, 40, 100}

InitSetters == InitWith(GeomOptions)

NextSetters ==
    \/ \E v \in SetterGradients : set_gradient(v)
    \/ \E v \in SetterFreqs : set_minFreq(v)
    \/ \E v \in SetterFreqs : set_maxFreq(v)
    \/ \E v \in SetterModes : set_mode(v)
    \/ \E v \in SetterRatios : set_reflexRatio(v)

SpecSetters == InitSetters /\ [][NextSetters]_vars

ValidationErrors ==
    {"ERR_UNKNOWN_GRADIENT", "ERR_FREQUENCY_TOO_LOW", "ERR_INVALID_MODE",
     "ERR_REFLEX_OUT_OF_RANGE"}

\* C6: a call of set gradient, set minFreq, set maxFreq, set mode or set
\* reflexRatio that raises its validation error leaves the whole instance,
\* configuration and derived structures alike, as it was before the call.
C6_FailedSetter ==
    [][err' \in ValidationErrors => am' = am]_vars

\* a rejected gradient name on an instance that no longer has its defaults
C6_Witness ==
    /\ call.op = "set gradient"
    /\ err = "ERR_UNKNOWN_GRADIENT"
    /\ am.gradient = "prism"
    /\ am.mode = 3
    /\ am.reflexRatio = 40

---------------------------------------------------------------------------
(* registerGradient *)

GradNames ==
    {[isString |-> TRUE, text |-> "classic"], [isString |-> TRUE, text |-> "mine"],
     [isString |-> TRUE, text |-> " "], [isString |-> FALSE, text |-> ""]}

GradStopLists ==
    {<< >>, << Bare("red") >>, << Bare("red"), Bare("blue") >>,
     << Bare("red"), [pos |-> 30000, color |-> "lime"], Bare("blue") >>}

GradOptions ==
    {[kind |-> "other", hasStops |-> FALSE, colorStops |-> << >>,
      bgColor |-> "", dir |-> UNDEF],
     [kind |-> "null", hasStops |-> FALSE, colorStops |-> << >>,
      bgColor |-> "", dir |-> UNDEF],
     [kind |-> "object", hasStops |-> FALSE, colorStops |-> << >>,
      bgColor |-> "", dir |-> UNDEF]}
    \cup {[kind |-> "object", hasStops |-> TRUE, colorStops |-> c,
           bgColor |-> b, dir |-> d] :
             c \in GradStopLists, b \in {"", "#000"}, d \in {UNDEF, "h"}}

InitGrad == InitWith(GeomOptions)

NextGrad ==
    \/ \E n \in GradNames, o \in GradOptions : registerGradient(n, o)
    \/ \E v \in {"classic", "mine", "prism"} : set_gradient(v)

SpecGrad == InitGrad /\ [][NextGrad]_vars

\* C9: a registerGradient call that raises leaves the gradient registry and
\* the built active gradient unchanged, and every registry entry always has
\* at least 2 color stops.
C9_RegisterGradient ==
    /\ [][call'.op = "registerGradient" /\ err' # NoErr
            => /\ am'.gradients = am.gradients
               /\ am'.canvasGradient = am.canvasGradient]_vars
    /\ [](\A n \in DOMAIN am.gradients : Len(am.gradients[n].colorStops) >= 2)

\* 'classic' was registered anew and is active, and the latest call, with
\* too few color stops, was rejected
C9_Witness ==
    /\ call.op = "registerGradient"
    /\ err = "ERR_GRADIENT_MISSING_COLOR"
    /\ am.gradient = "classic"
    /\ am.gradients["classic"] # BuiltinGradients["classic"]
    /\ "mine" \in DOMAIN am.gradients

---------------------------------------------------------------------------
(* getEnergy, lines 414-436.  A result is the exact quotient [num, den]:   *)
(* energy / ( endBin - startBin + 1 ) / chnCount / 255                      *)

\* const presets, lines 418-424
EnergyPresets ==
    [n \in {"bass", "lowMid", "mid", "highMid", "treble"} |->
       CASE n = "bass"    -> <<20, 250>>
         [] n = "lowMid"  -> <<250, 500>>
         [] n = "mid"     -> <<500, 2000>>
         [] n = "highMid" -> <<2000, 4000>>
         [] n = "treble"  -> <<4000, 16000>>]

\* the inner loop of line 433 over the bins i .. endBin of one channel
RECURSIVE EnergyBins(_, _, _, _)
EnergyBins(d, i, endBin, energy) ==
    IF i > endBin THEN energy
    ELSE EnergyBins(d, i + 1, endBin, energy + d[i + 1])

EnergyLoop_MonoOnly(s, startBin, endBin, chnCount) ==
    EnergyBins(s.fftData[1], startBin, endBin, 0)

\* the loops of lines 432-434
EnergyLoop(s, startBin, endBin, chnCount) ==
    IF chnCount = 1 THEN EnergyBins(s.fftData[1], startBin, endBin, 0)
    ELSE EnergyBins(s.fftData[2], startBin, endBin,
                    EnergyBins(s.fftData[1], startBin, endBin, 0))

\* lines 428-435 for numeric startFreq and endFreq (Hz); endFreq 0 stands
\* for a missing or zero second argument
EnergyOver(s, startFreq, endFreq) ==
    LET startBin == FreqToBin(s, startFreq * FreqUnit, "round")
        endBin   == IF endFreq # 0 THEN FreqToBin(s, endFreq * FreqUnit, "round")
                    ELSE startBin
        chnCount == IF s.stereo THEN 2 ELSE 1
    IN  [num |-> EnergyLoop(s, startBin, endBin, chnCount),
         den |-> (endBin - startBin + 1) * chnCount * 255]

\* getEnergy( startFreq, endFreq ) called with a preset name or two numbers
GetEnergy(s, args) ==
    IF Len(args) = 1
    THEN EnergyOver(s, EnergyPresets[args[1]][1], EnergyPresets[args[1]][2])
    ELSE EnergyOver(s, args[1], args[2])

getEnergy(args) ==
    /\ call' = [op |-> "getEnergy", args |-> args, ret |-> GetEnergy(am, args)]
    /\ err' = NoErr
    /\ UNCHANGED <<am, pending, nextId, lastStop, main, ui>>

EnergyArgs ==
    {<<"bass">>, <<"mid">>, <<"treble">>, <<20, 250>>, <<500, 2000>>,
     <<4000, 16000>>, <<1, 1>>, <<3000, 30000>>, <<30000, 30000>>}

EnergyOptions ==
    {[DefaultOptions EXCEPT !.fftSize = 32, !.stereo = st] : st \in {FALSE, TRUE}}

EnergyData(n) ==
    { [k \in 1..n |-> 255], [k \in 1..n |-> IF k = 3 THEN 200 ELSE 10],
      [k \in 1..n |-> (k * 37) % 256] }

InitEnergy == InitWith(EnergyOptions)

NextEnergy ==
    \/ \E a \in EnergyArgs : getEnergy(a)
    \/ \E id \in pending, d1, d2 \in EnergyData(BinCount(am)) :
          nextId <= MaxRafId /\ draw(id, <<d1, d2>>, << >>)

SpecEnergy == InitEnergy /\ [][NextEnergy]_vars

\* the magnitudes of channel c over the bins lo .. hi, added up
RECURSIVE MagnitudeSum(_, _, _)
MagnitudeSum(d, lo, hi) ==
    IF hi < lo THEN 0 ELSE d[hi + 1] + MagnitudeSum(d, lo, hi - 1)

ExpectedEnergy(s, startFreq, endFreq) ==
    LET lo == FreqToBin(s, startFreq * FreqUnit, "round")
        hi == FreqToBin(s, endFreq * FreqUnit, "round")
    IN  [num |-> MagnitudeSum(s.fftData[1], lo, hi)
                 + (IF s.stereo THEN MagnitudeSum(s.fftData[2], lo, hi) ELSE 0),
         den |-> (hi - lo + 1) * (IF s.stereo THEN 2 ELSE 1) * 255]

PresetPair(name) ==
    CASE name = "bass" -> <<20, 250>> [] name = "lowMid" -> <<250, 500>>
      [] name = "mid" -> <<500, 2000>> [] name = "highMid" -> <<2000, 4000>>
      [] name = "treble" -> <<4000, 16000>>

\* C11: getEnergy( startFreq, endFreq ) with 1 <= startFreq <= endFreq
\* returns the sum of the last-read magnitudes over the bins of the range and
\* over the active channels, divided by bins x channels x 255, a number in
\* [0, 1]; a preset name returns what its frequency pair returns.
C11_GetEnergy ==
    call.op = "getEnergy" =>
        LET pair == IF Len(call.args) = 1 THEN PresetPair(call.args[1])
                    ELSE call.args
        IN  /\ call.ret = ExpectedEnergy(am, pair[1], pair[2])
            /\ call.ret.den > 0
            /\ call.ret.num >= 0
            /\ call.ret.num <= call.ret.den

\* a stereo reading over several bins after frames with different data in
\* the two channels
C11_Witness ==
    /\ call.op = "getEnergy"
    /\ call.args = <<500, 2000>>
    /\ am.stereo
    /\ am.fftData[1] # am.fftData[2]
    /\ call.ret.den > 2 * 255
    /\ call.ret.num > 0

---------------------------------------------------------------------------
(* Frames of the default configuration: fftSize 8192, mode 0, 20 Hz to      *)
(* 22000 Hz, mono, on an audio context running at 48000 Hz                  *)

FreshOptions == {[DefaultOptions EXCEPT !.sampleRate = 48000]}

FreshData(n) ==
    { [k \in 1..n |-> 0], [k \in 1..n |-> 255],
      [k \in 1..n |-> IF k < 50 THEN 200 ELSE 10] }

InitFresh == InitWith(FreshOptions)

NextFresh ==
    \/ \E id \in pending, d \in FreshData(BinCount(am)) :
          nextId <= MaxRafId /\ draw(id, <<d, d>>, << >>)
    \/ \E a \in {<<"bass">>, <<20, 250>>, <<"lowMid">>, <<300, 300>>, <<1, 1>>} : getEnergy(a)

SpecFresh == InitFresh /\ [][NextFresh]_vars

AllBytes(d, v) == \A k \in 1..Len(d) : d[k] = v

\* C12: on a freshly constructed analyzer with default options, one frame
\* whose magnitudes are all 0 leaves energy 0 and peak energy 0; a frame
\* whose magnitudes are all 255 leaves energy 1, peak energy 1 and the
\* energy hold counter at 30.
C12_FirstFrames ==
    call.op = "_draw" =>
        /\ err = NoErr
        /\ (nextId = 3 /\ AllBytes(am.fftData[1], 0))
              => am.energy.val = 0 /\ am.energy.peak = 0
        /\ AllBytes(am.fftData[1], 255)
              => am.energy = [val |-> ValOne, peak |-> ValOne, hold |-> HoldFrames]

\* the first frame ran on all 255 over several hundred bars
C12_Witness ==
    /\ call.op = "_draw"
    /\ nextId = 3
    /\ am.fftSize = 8192
    /\ Len(am.bars) > 100
    /\ AllBytes(am.fftData[1], 255)
    /\ am.energy.val = ValOne

---------------------------------------------------------------------------
(* What a frame changes *)

\* the part of a bar that _calcBars computes
BarGeometry(bar) ==
    <<bar.posX, bar.binLo, bar.binHi, bar.freqLo, bar.freqHi, bar.ratioLo,
      bar.ratioHi>>

SameGeometry(a, b) ==
    /\ Len(a) = Len(b)
    /\ \A k \in 1..Len(a) : BarGeometry(a[k]) = BarGeometry(b[k])

\* C13 as the spec states it: a frame leaves the bar geometry, the LED
\* tuple, the built gradient and every configuration field as they were;
\* nothing but the bars' value/peak/hold, the energy record and the run id
\* changes.
C13_Original ==
    [][call'.op = "_draw" =>
         /\ SameGeometry(am'.bars, am.bars)
         /\ [am' EXCEPT !.bars = am.bars, !.energy = am.energy,
                        !.runId = am.runId] = am]_vars

\* C13 amended: a frame leaves the bar geometry, the LED tuple, the built
\* gradient and every configuration field as they were; nothing but the
\* bars' value/peak/hold, the energy record, the run id and the contents of
\* the magnitude arrays changes.
C13_FrameEffect ==
    [][call'.op = "_draw" =>
         /\ SameGeometry(am'.bars, am.bars)
         /\ [am' EXCEPT !.bars = am.bars, !.energy = am.energy,
                        !.runId = am.runId, !.fftData = am.fftData] = am]_vars

\* a frame has run on octave bands and left values in the bars
C13_Witness ==
    /\ call.op = "_draw"
    /\ err = NoErr
    /\ am.mode = 8
    /\ Len(am.bars) > 1
    /\ am.bars[1].ratioLo # 0
    /\ am.bars[1].value[1] > 0
    /\ am.leds[1] > 0

---------------------------------------------------------------------------
(* Configuration calls and the derived state *)

\* setCanvasSize( w, h ), lines 453-457
SetCanvasSize(s, w, h) == SetCanvas([s EXCEPT !.width = w, !.height = h], "user")

\* setLedParams( params ), lines 467-476: params is << >> when missing,
\* else << maxLeds, spaceV, spaceH >> with the two spaces in 1/PxUnit
SetLedParams(s, params) ==
    Ok(CalcLeds([s EXCEPT !.ledParams =
                   IF params # << >> /\ params[1] > 0 /\ params[2] > 0 /\ params[3] >= 0
                   THEN params ELSE << >>]))

set_barSpace(v) == Returns("set barSpace", <<v>>, SetBarSpace(am, v))
set_lumiBars(v) == Returns("set lumiBars", << >>, SetLumiBars(am, v))
set_mirror(v)   == Returns("set mirror", <<v>>, SetMirror(am, v))
set_radial(v)   == Returns("set radial", << >>, SetRadial(am, v))
set_stereo(v)   == Returns("set stereo", << >>, SetStereo(am, v))
setCanvasSize(w, h) == Returns("setCanvasSize", <<w, h>>, SetCanvasSize(am, w, h))
setLedParams(p) == Returns("setLedParams", << >>, SetLedParams(am, p))

ConfigOptions == {[DefaultOptions EXCEPT !.fftSize = 32, !.mode = 3]}

InitConfig == InitWith(ConfigOptions)

NextConfig ==
    \/ \E v \in {0, 3} : set_mode(v)
    \/ \E v \in BOOLEAN : set_stereo(v)
    \/ \E v \in BOOLEAN : set_ledBars(v)
    \/ \E v \in BOOLEAN : set_lumiBars(v)
    \/ \E v \in BOOLEAN : set_radial(v)
    \/ \E v \in {0} : set_reflexRatio(v)
    \/ \E v \in {0} : set_mirror(v)
    \/ \E v \in {100} : set_barSpace(v)
    \/ \E v \in {32} : set_fftSize(v)
    \/ \E r \in {<<20, 22000>>} : setFreqRange(r[1], r[2])
    \/ \E p \in {<< >>, <<16, 2000, 500>>} : setLedParams(p)
    \/ \E d \in {<<0, 0>>} : setCanvasSize(d[1], d[2])

SpecConfig == InitConfig /\ [][NextConfig]_vars

\* the fields _calcAux assigns
AuxState(s) ==
    <<s.radius, s.barSpacePx, s.isOctaveBands, s.isLedDisplay, s.isLumiBars,
      s.isAlphaBars, s.isOutline, s.maximizeLeds, s.channelHeight,
      s.analyzerHeight, s.channelGap, s.analyzerWidth, s.initialX>>

\* _calcAux, _calcBars and _calcLeds run anew on the instance
Recomputed(s) == CalcLeds(CalcBars(CalcAux(s)).s)

DerivedIsFresh(s, f) ==
    /\ AuxState(s) = AuxState(f)
    /\ SameGeometry(s.bars, f.bars)
    /\ IsOctaveBands(s.mode) => s.leds = f.leds

\* C14 as the spec states it: after any sequence of configuration calls
\* that returned normally, the auxiliary heights and flags, the bar list
\* and, in octave-band modes, the LED tuple are what _calcAux, _calcBars
\* and _calcLeds compute from the current configuration.
C14_NeverStale ==
    err = NoErr /\ DerivedIsFresh(am, Recomputed(am))

---------------------------------------------------------------------------
(* The resize and fullscreenchange listeners, lines 146-179 *)

\* the id window.setTimeout returns: the least one that is neither pending
\* nor remembered by the instance
NewTimerId(s) ==
    CHOOSE i \in 1..(Cardinality(s.timers) + 2) :
        /\ i # s.fsTimeout
        /\ \A t \in s.timers : t.id # i
        /\ \A j \in 1..(i - 1) : j = s.fsTimeout \/ \E t \in s.timers : t.id = j

\* onResize, lines 146-155
OnResize(s) ==
    IF s.fsTimeout # 0 THEN s
    ELSE [s EXCEPT !.fsTimeout = NewTimerId(s),
                   !.timers = @ \cup {[id |-> NewTimerId(s), kind |-> "resize"]}]

\* the container takes the client size w x h; the ResizeObserver or the
\* window's resize event then runs onResize
ResizeEvent(s, w, h) ==
    IF ~s.listening THEN s
    ELSE OnResize([s EXCEPT !.containerW = w, !.containerH = h])

\* lines 152-153 once _setCanvas( 'resize' ) ended with r
AfterResizeCanvas(r) ==
    IF r.err # NoErr THEN r ELSE Ok([r.s EXCEPT !.fsTimeout = 0])

\* the window runs the timeout t: the callback of lines 148-153 or 175-178
TimerFires(s, t) ==
    IF t.kind = "resize"
    THEN IF s.fsChanging THEN Ok([s EXCEPT !.timers = @ \ {t}])
         ELSE AfterResizeCanvas(SetCanvas([s EXCEPT !.timers = @ \ {t}], "resize"))
    ELSE Ok([s EXCEPT !.timers = @ \ {t}, !.fsChanging = FALSE, !.fsTimeout = 0])

\* lines 175-178 once _setCanvas( 'fschange' ) ended with r
AfterFsCanvas(r) ==
    IF r.err # NoErr THEN r
    ELSE Ok([r.s EXCEPT !.fsTimeout = NewTimerId(r.s),
                        !.timers = @ \cup {[id |-> NewTimerId(r.s), kind |-> "fs"]}])

\* the canvas enters or leaves fullscreen: the listener of lines 167-179
FullscreenChange(s) ==
    IF ~s.listening THEN Ok(s)
    ELSE AfterFsCanvas(SetCanvas(
           [s EXCEPT !.fullscreen = ~@, !.fsChanging = TRUE,
                     !.timers = {t \in @ : t.id # s.fsTimeout}], "fschange"))

resize(w, h)     == Returns("resize", <<w, h>>, Ok(ResizeEvent(am, w, h)))
timeout(t)       == Returns("timeout", <<t.id>>, TimerFires(am, t))
fullscreenchange == Returns("fullscreenchange", << >>, FullscreenChange(am))

---------------------------------------------------------------------------
(* The constructor's audio set-up, lines 83-116.  An audio record is        *)
(* [audioCtx, source, webAudio]: options.audioCtx ("none", "valid", or      *)
(* "invalid", an object without createGain), options.source ("none",        *)
(* "node", or "invalid", an object that is neither a media element nor an   *)
(* audio node), and whether the window can create an audio context.         *)

\* lines 87-102: the error raised while the audio context is obtained
ContextError(a) ==
    IF a.source = "node" THEN NoErr
    ELSE IF a.audioCtx = "valid" THEN NoErr
    ELSE IF a.audioCtx = "invalid" THEN "ERR_INVALID_AUDIO_CONTEXT"
    ELSE IF ~a.webAudio THEN "ERR_AUDIO_CONTEXT_FAIL"
    ELSE NoErr

\* lines 113-114 and 368-370: connectInput( options.source )
SourceError(a) ==
    IF a.source = "invalid" THEN "ERR_INVALID_AUDIO_SOURCE" ELSE NoErr

\* the instance when the constructor is left before line 157
Unbuilt(o) == [Blank(o) EXCEPT !.listening = FALSE]

\* new AudioMotionAnalyzer( container, { ...o, ...a } )
ConstructWith(o, a) ==
    IF ContextError(a) # NoErr
    THEN [w |-> NewWorld(Unbuilt(o)), err |-> ContextError(a)]
    ELSE IF SourceError(a) # NoErr
    THEN [w |-> NewWorld(Unbuilt(o)), err |-> SourceError(a)]
    ELSE IF a.source = "none" THEN Construct(o)
    ELSE Created(SetProps(CalcAux(
            ConnectInput(Blank(o), [kind |-> "node", id |-> a.source], FALSE).s),
            o), o)

\* the state after new AudioMotionAnalyzer( ... ) returned or raised
InitAny(options, audio) ==
    \E o \in options, a \in audio : \E c \in {ConstructWith(o, a)} :
        /\ am = c.w.am
        /\ pending = c.w.pending
        /\ nextId = c.w.nextId
        /\ lastStop = c.w.lastStop
        /\ call = [op |-> "constructor", args |-> << >>]
        /\ err = c.err
        /\ main = MainIdle
        /\ ui = UiIdle

CtorOptions ==
    {[DefaultOptions EXCEPT !.fftSize = 32, !.mode = m, !.minFreq = r[1],
                            !.maxFreq = r[2], !.start = st] :
        m \in {0, 3, 9}, r \in {<<20, 22000>>, <<10, 10>>, <<0, 22000>>},
        st \in {"true", "false"}}

CtorAudio ==
    {[audioCtx |-> "none", source |-> "none", webAudio |-> TRUE],
     [audioCtx |-> "none", source |-> "none", webAudio |-> FALSE],
     [audioCtx |-> "invalid", source |-> "none", webAudio |-> TRUE],
     [audioCtx |-> "valid", source |-> "invalid", webAudio |-> TRUE],
     [audioCtx |-> "none", source |-> "node", webAudio |-> FALSE]}

CtorSizes == {<<640, 270>>, <<320, 200>>}

InitCtor == InitAny(CtorOptions, CtorAudio)

NextCtor ==
    \/ \E d \in CtorSizes : resize(d[1], d[2])
    \/ \E t \in am.timers : timeout(t)
    \/ fullscreenchange
    \/ \E id \in pending, d \in {[k \in 1..BinCount(am) |-> 255]} :
          nextId <= MaxRafId /\ draw(id, <<d, d>>, << >>)

SpecCtor == InitCtor /\ [][NextCtor]_vars

\* what _setCanvas and the recomputations it starts write
CanvasWork(s) == <<s.canvasW, s.canvasH, s.pixelRatio, s.canvasGradient,
                   AuxState(s), s.barWidth, s.bars, s.leds>>

\* C15 as the spec states it: when the constructor raises, no animation
\* frame has been scheduled and the instance is not ready; it never becomes
\* ready, and while it is not ready no resize or fullscreen event and no
\* timeout does any canvas or geometry work.
C15_FailedConstructor ==
    /\ [](call.op = "constructor" /\ err # NoErr => pending = {} /\ ~am.ready)
    /\ [][~am.ready => ~am'.ready /\ CanvasWork(am') = CanvasWork(am)]_vars

---------------------------------------------------------------------------
(* Resize and fullscreen events on a constructed instance *)

ResizeOptions == {[DefaultOptions EXCEPT !.fftSize = 32, !.mode = 3]}
ResizeSizes   == {<<640, 270>>, <<320, 200>>}
ResizeRanges  == {<<20, 22000>>, <<10, 10>>}

InitResize == InitWith(ResizeOptions)

NextResize ==
    \/ \E d \in ResizeSizes : resize(d[1], d[2])
    \/ \E t \in am.timers : timeout(t)
    \/ fullscreenchange
    \/ \E r \in ResizeRanges : setFreqRange(r[1], r[2])
    \/ \E v \in {0, 3} : set_mode(v)

SpecResize == InitResize /\ [][NextResize]_vars

\* C16 as the spec states it: at most one settle timer is pending; a resize
\* event does no canvas work itself and, outside a fullscreen change, leaves
\* a resize timer pending, whose firing makes the one _setCanvas( 'resize' )
\* call of the burst; while a fullscreen change is settling neither a resize
\* event nor a timeout does any canvas work.
C16_Debounce ==
    /\ [](Cardinality(am.timers) <= 1)
    /\ [][call'.op = "resize" =>
            /\ CanvasWork(am') = CanvasWork(am)
            /\ ~am.fsChanging => \E t \in am'.timers : t.kind = "resize"]_vars
    /\ [][call'.op \in {"resize", "timeout"} /\ am.fsChanging
            => CanvasWork(am') = CanvasWork(am)]_vars

---------------------------------------------------------------------------
(* Audio routing *)

MaxSources == 2

connectOutput(node) ==
    Returns("connectOutput", <<node>>,
            Ok(ConnectOutput(am, IF node = NoNode THEN Destination ELSE node)))

disconnectOutput(node) ==
    Returns("disconnectOutput", <<node>>, Ok(DisconnectOutput(am, node)))

connectInput(source, strict) ==
    /\ \A e \in Elements : am.created[e] < MaxSources
    /\ Returns("connectInput", <<source>>, ConnectInput(am, source, strict))

disconnectInput(node) ==
    Returns("disconnectInput", <<node>>,
            Ok(DisconnectInput(am, IF node = NoNode
                                   THEN {am.sources[i] : i \in DOMAIN am.sources}
                                   ELSE {node})))

RouteOptions == {[DefaultOptions EXCEPT !.fftSize = 32, !.connectSpeakers = c] :
                    c \in BOOLEAN}
RouteOutputs == {NoNode, Destination, Node("recorder")}
RouteSources == {[kind |-> "node", id |-> "oscillator"],
                 [kind |-> "element", id |-> "audio"],
                 [kind |-> "invalid", id |-> "text"]}

InitRoute == InitWith(RouteOptions)

NextRoute ==
    \/ \E v \in BOOLEAN : set_stereo(v)
    \/ \E n \in RouteOutputs : connectOutput(n)
    \/ \E n \in RouteOutputs : disconnectOutput(n)
    \/ \E src \in RouteSources, strict \in BOOLEAN : connectInput(src, strict)
    \/ \E n \in {NoNode} \cup {am.sources[i] : i \in DOMAIN am.sources} :
          disconnectInput(n)

SpecRoute == InitRoute /\ [][NextRoute]_vars

\* the connections the graph must hold for a stereo flag, a set of output
\* nodes and a set of source nodes
Routing(stereo, outs, srcs) ==
    {[src |-> Splitter, out |-> 0, dst |-> Analyzer(0), inp |-> 0],
     [src |-> Splitter, out |-> 1, dst |-> Analyzer(1), inp |-> 0],
     [src |-> Merger, out |-> 0, dst |-> OutputGain, inp |-> 0],
     [src |-> InputGain, out |-> 0,
      dst |-> IF stereo THEN Splitter ELSE Analyzer(0), inp |-> 0]}
    \cup (IF outs = {} THEN {}
          ELSE {[src |-> Analyzer(0), out |-> 0,
                 dst |-> IF stereo THEN Merger ELSE OutputGain, inp |-> 0],
                [src |-> Analyzer(1), out |-> 0, dst |-> Merger, inp |-> 1]})
    \cup {[src |-> OutputGain, out |-> 0, dst |-> n, inp |-> 0] : n \in outs}
    \cup {[src |-> n, out |-> 0, dst |-> InputGain, inp |-> 0] : n \in srcs}

Members(list) == {list[i] : i \in DOMAIN list}
NoDuplicates(list) == \A i, j \in DOMAIN list : list[i] = list[j] => i = j

\* the source the call names already has a node among connectedSources
SourceConnected(s, source) == \E i \in DOMAIN s.sources : s.sources[i].of = source.id

\* C17: the audio graph is the one determined by the stereo flag and the
\* connected nodes; connectedTo and connectedSources hold no node twice;
\* connecting an output node or an input source that is already connected
\* changes nothing and raises nothing.
C17_Routing ==
    /\ [](am.edges = Routing(am.stereo, Members(am.outNodes), Members(am.sources)))
    /\ [](NoDuplicates(am.outNodes) /\ NoDuplicates(am.sources))
    /\ [][call'.op = "connectOutput" /\ Includes(am.outNodes, call'.args[1])
            => am' = am /\ err' = NoErr]_vars
    /\ [][call'.op = "connectInput" /\ SourceConnected(am, call'.args[1])
            => am' = am /\ err' = NoErr]_vars

\* the part of C17 about the graph and the output nodes alone
C17_GraphOnly ==
    /\ am.edges = Routing(am.stereo, Members(am.outNodes), Members(am.sources))
    /\ NoDuplicates(am.outNodes) /\ NoDuplicates(am.sources)

---------------------------------------------------------------------------
(* _freqToBin on its own *)

\* this._freqToBin( freq, rounding )
freqToBin(freq, rounding) ==
    /\ call' = [op |-> "freqToBin", args |-> <<freq, rounding>>,
                ret |-> FreqToBin(am, freq, rounding)]
    /\ err' = NoErr
    /\ UNCHANGED <<am, pending, nextId, lastStop, main, ui>>

BinOptions == {[DefaultOptions EXCEPT !.fftSize = f] : f \in {32, 64}}

\* 1 Hz, then every quarter of the bin width of the 32-point FFT up to 18 bins
BinFreqs == {FreqUnit} \cup {k * 44100 : k \in 1..72}

InitBin == InitWith(BinOptions)

NextBin == \E f \in BinFreqs, r \in {"round", "floor"} : freqToBin(f, r)

SpecBin == InitBin /\ [][NextBin]_vars

\* Math.round or Math.floor of freq * fftSize / sampleRate, freq in 1/FreqUnit Hz
ExactBin(s, freq, rounding) ==
    IF rounding = "floor" THEN (freq * s.fftSize) \div (s.sampleRate * FreqUnit)
    ELSE RoundDiv(freq * s.fftSize, s.sampleRate * FreqUnit)

ClampTo(v, lo, hi) == IF v < lo THEN lo ELSE IF v > hi THEN hi ELSE v

\* C18 as the spec states it: the bin is the rounded (or floored) quotient
\* clamped to [0, fftSize/2 - 2].
C18_Original ==
    call.op = "freqToBin" =>
        call.ret = ClampTo(ExactBin(am, call.args[1], call.args[2]),
                           0, am.fftSize \div 2 - 2)

\* C18: for every frequency >= 1 Hz the bin returned is the rounded (or
\* floored, when requested) quotient freq * fftSize / sampleRate clamped to
\* [0, fftSize/2 - 1], the index of the last FFT bin.
C18_FreqToBin ==
    call.op = "freqToBin" =>
        call.ret = ClampTo(ExactBin(am, call.args[1], call.args[2]),
                           0, am.fftSize \div 2 - 1)

\* a frequency above the last bin was mapped to the last bin
C18_Witness ==
    /\ call.op = "freqToBin"
    /\ ExactBin(am, call.args[1], call.args[2]) > am.fftSize \div 2 - 1
    /\ call.ret = am.fftSize \div 2 - 1

---------------------------------------------------------------------------
(* Which algorithm builds the bars *)

AlgoOptions == {[DefaultOptions EXCEPT !.fftSize = 512]}
AlgoModes   == 0..10
AlgoRanges  == {<<20, 22000>>, <<100, 5000>>, <<5000, 100>>}

InitAlgo == InitWith(AlgoOptions)

NextAlgo ==
    \/ \E v \in AlgoModes : set_mode(v)
    \/ \E r \in AlgoRanges : setFreqRange(r[1], r[2])

SpecAlgo == InitAlgo /\ [][NextAlgo]_vars

\* the pixel column of bin i on the logarithmic frequency axis
Column(s, i) == DiscretePos(s, LogRange(s), BinToFreq(s, i)) * PxUnit

\* the bars are those of the discrete algorithm: bars one pixel wide that
\* partition the bins of [minFreq, maxFreq] into runs of consecutive bins,
\* one run per distinct pixel column, with no fractional edges
DiscreteShape(s) ==
    /\ s.barWidth = PxUnit
    /\ Len(s.bars) > 0
    /\ s.bars[1].binLo = FreqToBin(s, s.minFreq * FreqUnit, "floor")
    /\ s.bars[Len(s.bars)].binHi = FreqToBin(s, s.maxFreq * FreqUnit, "round")
    /\ \A k \in 1..Len(s.bars) :
          /\ s.bars[k].ratioLo = 0 /\ s.bars[k].ratioHi = 0
          /\ s.bars[k].freqLo = BinToFreq(s, s.bars[k].binLo)
          /\ \A i \in s.bars[k].binLo..s.bars[k].binHi : Column(s, i) = s.bars[k].posX
    /\ \A k \in 1..(Len(s.bars) - 1) :
          /\ s.bars[k + 1].binLo = s.bars[k].binHi + 1
          /\ s.bars[k].posX < s.bars[k + 1].posX

\* the groups of `steps` consecutive scale entries that lie in [minFreq, maxFreq]
GroupsInRange(s, steps) ==
    {g \in 0..(ScaleLen \div steps - 1) :
        /\ ScaleFreq(g * steps) >= s.minFreq * FreqUnit
        /\ ScaleFreq(g * steps + steps - 1) <= s.maxFreq * FreqUnit}

\* bar k is the band of group g: it ends at the group's last scale entry
\* and begins at its first one, unless an edge was moved onto a bin boundary
BandOf(s, bar, g, steps) ==
    /\ bar.freqLo = ScaleFreq(g * steps)
         \/ (bar.ratioLo = 0 /\ bar.freqLo = BinToFreq(s, bar.binLo))
    /\ bar.freqHi = ScaleFreq(g * steps + steps - 1)
         \/ (bar.ratioHi = 0 /\ bar.freqHi = BinToFreq(s, bar.binHi))

\* the bars are those of the octave-band algorithm with `steps` entries of
\* the 264-entry scale per bar: one bar of equal width per group in range
OctaveShape(s, groups, steps) ==
    /\ ScaleLen = 264
    /\ groups # {}
    /\ Len(s.bars) = Cardinality(groups)
    /\ s.barWidth = (s.analyzerWidth * PxUnit) \div Len(s.bars)
    /\ s.bars[1].freqLo = ScaleFreq(steps * CHOOSE g \in groups : \A h \in groups : g <= h)
    /\ \A k \in 1..Len(s.bars) :
          /\ s.bars[k].posX = s.initialX * PxUnit
                              + ((k - 1) * s.analyzerWidth * PxUnit) \div Len(s.bars)
          /\ \E g \in groups :
                /\ Cardinality({h \in groups : h < g}) = k - 1
                /\ BandOf(s, s.bars[k], g, steps)

StepsPerBar == <<1, 2, 3, 4, 6, 8, 12, 24>>

GeometryBuilt ==
    err = NoErr /\ call.op \in {"constructor", "set mode", "setFreqRange"}

\* C19 as the spec states it: mode 0 builds discrete bars, modes 1-8 build
\* octave bands of 1, 2, 3, 4, 6, 8, 12, 24 scale entries, and mode 10
\* builds octave bands too.
C19_Original ==
    GeometryBuilt =>
        CASE am.mode = 0 -> DiscreteShape(am)
          [] am.mode \in 1..8 ->
               OctaveShape(am, GroupsInRange(am, StepsPerBar[am.mode]),
                           StepsPerBar[am.mode])
          [] am.mode = 10 ->
               \E m \in 1..8 :
                   OctaveShape(am, GroupsInRange(am, StepsPerBar[m]), StepsPerBar[m])

\* C19: the algorithm is selected by mode: modes 0 and 10 build discrete
\* bars (one bar per distinct rounded pixel column, consecutive bins on the
\* same column merged), and modes 1..8 build octave bands over the 264-entry
\* tempered scale, grouping 1, 2, 3, 4, 6, 8, 12, 24 consecutive entries per
\* bar respectively.
C19_Algorithm ==
    GeometryBuilt =>
        /\ am.mode \in ValidModes
        /\ am.isOctaveBands = (am.mode \in 1..8)
        /\ IF am.mode \in {0, 10} THEN DiscreteShape(am)
           ELSE OctaveShape(am, GroupsInRange(am, StepsPerBar[am.mode]),
                            StepsPerBar[am.mode])

\* mode 10 was assigned and left more than a hundred discrete bars
C19_Witness ==
    /\ GeometryBuilt
    /\ call.op = "set mode"
    /\ am.mode = 10
    /\ DiscreteShape(am)
    /\ Len(am.bars) > 100

---------------------------------------------------------------------------
(* Gap filling between octave bands *)

\* the first group of scale entries in range
FirstGroup(s) ==
    CHOOSE g \in GroupsInRange(s, Steps(s.mode)) :
        \A h \in GroupsInRange(s, Steps(s.mode)) : g <= h

\* the bin of the last scale entry of the group of bar k, and the bin of
\* the first scale entry of the group after it
GroupEndBin(s, g0, k) ==
    ScaleEntry(s, (g0 + k - 1) * Steps(s.mode) + Steps(s.mode) - 1).bin
NextGroupBin(s, g0, k) == ScaleEntry(s, (g0 + k) * Steps(s.mode)).bin

\* bars k and k + 1 after a gap of more than one bin between their groups
GapFilled(s, k, endBin, nextBin) ==
    /\ s.bars[k].binHi = nextBin - ((nextBin - endBin) \div 2)
    /\ s.bars[k].ratioHi = 0
    /\ s.bars[k + 1].binLo = s.bars[k].binHi + 1

\* C20: in octave-band modes, once the geometry is rebuilt, every bin from
\* the first bar's binLo to the last bar's binHi lies in some bar; for
\* consecutive bars next.binLo <= prev.binHi + 1; and where the groups of
\* two consecutive bars were more than one bin apart, the previous bar's
\* binHi is the midpoint of the gap, its ratioHi is 0 and the next bar
\* starts at prev.binHi + 1.
C20_GapFilling ==
    GeometryBuilt /\ am.isOctaveBands =>
        /\ \A i \in am.bars[1].binLo..am.bars[Len(am.bars)].binHi :
              \E k \in 1..Len(am.bars) : am.bars[k].binLo <= i /\ i <= am.bars[k].binHi
        /\ \E g0 \in {FirstGroup(am)} :
              \A k \in 1..(Len(am.bars) - 1) :
                 /\ am.bars[k + 1].binLo <= am.bars[k].binHi + 1
                 /\ NextGroupBin(am, g0, k) - GroupEndBin(am, g0, k) > 1
                      => GapFilled(am, k, GroupEndBin(am, g0, k), NextGroupBin(am, g0, k))

\* octave bands were rebuilt and some pair of bars was more than two bins
\* apart before the gap between them was filled
C20_Witness ==
    /\ GeometryBuilt /\ am.isOctaveBands
    /\ \E k \in 1..(Len(am.bars) - 1) :
          /\ NextGroupBin(am, FirstGroup(am), k) - GroupEndBin(am, FirstGroup(am), k) > 2
          /\ am.bars[k + 1].binLo = am.bars[k].binHi + 1
          /\ am.bars[k].ratioHi = 0

---------------------------------------------------------------------------
(* Peak hold over many frames *)

\* the number of animation frames a behaviour of the hold specifications runs
MaxFrames == 34

HoldOptions ==
    {[DefaultOptions EXCEPT !.fftSize = 32, !.mode = m, !.maxFreq = f] :
        m \in {0, 6}, f \in {16000, 22000}}

\* a loud frame, one slightly less loud, and two quiet ones
HoldData(n) == {[k \in 1..n |-> 255], [k \in 1..n |-> 250],
                [k \in 1..n |-> 10], [k \in 1..n |-> 0]}

InitHold == InitWith(HoldOptions)

NextHold ==
    \E id \in pending, d \in HoldData(BinCount(am)) :
        nextId <= MaxFrames /\ draw(id, <<d, d>>, << >>)

SpecHold == InitHold /\ [][NextHold]_vars

Channels(s) == 1..(IF s.stereo THEN 2 ELSE 1)

\* the frame that took bar `b` to `n` kept the hold policy for channel c
HoldStep(b, n, c) ==
    /\ n.value[c] >= b.peak[c] => n.peak[c] = n.value[c]
    /\ n.peak[c] = n.value[c] => n.hold[c] = HoldFrames
    /\ n.value[c] < b.peak[c] /\ b.hold[c] >= 1
          => n.peak[c] = b.peak[c] /\ n.hold[c] = b.hold[c] - 1
    /\ n.value[c] < b.peak[c] /\ b.hold[c] <= 0 => n.peak[c] < b.peak[c]

\* after a frame every bar's peak is a number >= its value and >= 0
PeakAbove(s) ==
    \A k \in 1..Len(s.bars) : \A c \in Channels(s) :
        /\ ~IsNaN(s.bars[k].value[c]) /\ ~IsNaN(s.bars[k].peak[c])
        /\ s.bars[k].peak[c] >= s.bars[k].value[c]
        /\ s.bars[k].peak[c] >= 0

\* C21 as the spec states it: a frame whose value reaches the peak sets the
\* peak to the value and the hold counter to 30; while the value stays
\* below the peak the peak is kept for the 30 frames the counter counts
\* down and is strictly lower on the 31st; after every frame each bar's
\* peak is >= its value and >= 0.
C21_PeakHold ==
    /\ [](call.op = "_draw" => PeakAbove(am))
    /\ [][call'.op = "_draw" =>
            \A k \in 1..Len(am.bars) : \A c \in Channels(am) :
                HoldStep(am.bars[k], am'.bars[k], c)]_vars

\* the hold policy alone, for the bars whose value is a number
C21_HoldOnly ==
    [][call'.op = "_draw" =>
         \A k \in 1..Len(am.bars) : \A c \in Channels(am) :
             ~IsNaN(am'.bars[k].value[c]) => HoldStep(am.bars[k], am'.bars[k], c)]_vars

\* a bar's peak fell on the 31st frame after it was set
C21_Fell ==
    /\ call.op = "_draw"
    /\ \E k \in 1..Len(am.bars) :
          /\ am.bars[k].hold[1] = -1
          /\ am.bars[k].peak[1] > am.bars[k].value[1]
          /\ am.bars[k].peak[1] < ValOne
          /\ am.bars[k].peak[1] > ValOne - ValOne \div 20

---------------------------------------------------------------------------
(* The energy peak over many frames *)

\* the frame that took the energy record `e` to `n` kept the hold policy
EnergyStep(e, n) ==
    /\ n.val >= e.peak => n.peak = n.val /\ n.hold = HoldFrames
    /\ n.val < e.peak /\ e.hold >= 1 => n.peak = e.peak /\ n.hold = e.hold - 1
    /\ n.val < e.peak /\ e.hold <= 0 => n.peak < e.peak

\* C22 as the spec states it: the energy peak follows the hold policy of the
\* bar peaks: energy >= peak sets the peak to the energy and hold to 30;
\* while the energy stays below the peak the peak is kept for the 30 frames
\* the counter counts down and decreases on the 31st, the frame on which a
\* bar peak set at the same time decreases.
C22_EnergyHold ==
    [][call'.op = "_draw" /\ ~IsNaN(am'.energy.val) =>
         /\ EnergyStep(am.energy, am'.energy)
         /\ \A k \in 1..Len(am.bars) :
               am.bars[k].hold[1] = am.energy.hold /\ am.bars[k].peak[1] > 0
               /\ am'.bars[k].peak[1] < am.bars[k].peak[1]
               /\ am.energy.peak > 0
                  => am'.energy.peak < am.energy.peak]_vars

---------------------------------------------------------------------------
(* The order of the stored frequency range *)

\* C23 as the spec states it: after a call that did not raise, the stored
\* minFreq is <= the stored maxFreq.
C23_RangeOrdered ==
    err = NoErr => am.minFreq <= am.maxFreq

---------------------------------------------------------------------------
(* setOptions, line 478, and _setProps without defaults, lines 1186-1243.  *)
(* An options object is the sequence of its own keys in insertion order,   *)
(* each [key, num, str, flag] with the value in the field of its type.     *)

StringKeys == {"gradient", "start"}
FlagKeys   == {"alphaBars", "ledBars", "loRes", "lumiBars", "outlineBars", "radial",
               "splitGradient", "stereo", "useCanvas"}

OptionValue(e) ==
    IF e.key \in StringKeys THEN e.str ELSE IF e.key \in FlagKeys THEN e.flag ELSE e.num

\* validProps.includes( prop ), for the keys that change the modelled state
IsValidProp(key) == \E i \in DOMAIN PropOrder : PropOrder[i] = key

\* this[ prop ] = options[ prop ] for the k-th key (line 1238)
AssignOption(s, e) ==
    IF IsValidProp(e.key)
    THEN AssignProp(s, [DefaultOptions EXCEPT ![e.key] = OptionValue(e)], e.key)
    ELSE Ok(s)

\* the loop of lines 1234-1239 from the k-th key on
RECURSIVE SetOptionsFrom(_, _, _)
NextOption(r, opts, k) ==
    IF r.err # NoErr THEN r ELSE SetOptionsFrom(r.s, opts, k + 1)

SetOptionsFrom(s, opts, k) ==
    IF k > Len(opts) THEN Ok(s)
    ELSE NextOption(AssignOption(s, opts[k]), opts, k)

\* options.start, UNDEF when the key is absent
StartOf(opts) ==
    IF \E i \in DOMAIN opts : opts[i].key = "start"
    THEN opts[CHOOSE i \in DOMAIN opts : opts[i].key = "start"].str
    ELSE UNDEF

\* lines 1241-1242 after the loop returned r
OptionsDone(w, r, start) ==
    IF r.err # NoErr \/ start = UNDEF THEN [w EXCEPT !.am = r.s]
    ELSE ToggleAnalyzer([w EXCEPT !.am = r.s], start)

\* setOptions( options )
setOptions(opts) ==
    \E r \in {SetOptionsFrom(am, opts, 1)} :
        /\ call' = [op |-> "setOptions", args |-> <<opts>>]
        /\ err' = r.err
        /\ SetWorld(OptionsDone(World, r, StartOf(opts)))

NumOpt(key, v)  == [key |-> key, num |-> v, str |-> "", flag |-> FALSE]
StrOpt(key, v)  == [key |-> key, num |-> 0, str |-> v, flag |-> FALSE]
FlagOpt(key, v) == [key |-> key, num |-> 0, str |-> "", flag |-> v]

OptionLists ==
    { << NumOpt("mode", 3), StrOpt("gradient", "unknown") >>,
      << StrOpt("gradient", "unknown"), NumOpt("mode", 3) >>,
      << StrOpt("gradient", "prism"), NumOpt("mode", 9) >>,
      << NumOpt("reflexRatio", 40), NumOpt("minFreq", 0) >>,
      << NumOpt("mode", 6), StrOpt("start", "true") >>,
      << StrOpt("start", "false"), StrOpt("gradient", "nope") >>,
      << FlagOpt("stereo", TRUE), NumOpt("reflexRatio", 100), StrOpt("start", "false") >>,
      << NumOpt("bogus", 1), StrOpt("gradient", "classic"), NumOpt("mode", 0),
         NumOpt("reflexRatio", 0), FlagOpt("stereo", FALSE) >>,
      << >> }

InitOptions == InitWith(GeomOptions)

NextOptions ==
    \/ \E opts \in OptionLists : nextId <= MaxRafId /\ setOptions(opts)
    \/ \E v \in {"true", "false"} : nextId <= MaxRafId /\ toggleAnalyzer(v)

SpecOptions == InitOptions /\ [][NextOptions]_vars

\* C24 as the spec states it: a setOptions call in which a key is rejected
\* by its setter changes nothing: the configuration, the derived state and
\* the run state are as before the call.
C24_SetOptionsAtomic ==
    [][call'.op = "setOptions" /\ err' \in ValidationErrors
         => am' = am /\ pending' = pending]_vars

\* the part of C24 that holds: the keys after the rejected one, start
\* included, have no effect, and the run state is unchanged
C24_RunStateKept ==
    [][call'.op = "setOptions" /\ err' \in ValidationErrors
         => am'.runId = am.runId /\ pending' = pending]_vars

---------------------------------------------------------------------------
(* Octave bands for every accepted range *)

\* C25 as the spec states it: in the octave-band modes 1..8 a mode or range
\* call that passed validation completes without raising and leaves at
\* least one bar, also for a range that lies below the first entry of the
\* scale or between two groups.
C25_OctaveBars ==
    /\ call.op \in {"set mode", "setFreqRange"}
    /\ err \notin ValidationErrors
    /\ am.mode \in 1..8
    => err = NoErr /\ Len(am.bars) >= 1

---------------------------------------------------------------------------
(* The magnitude indices a frame reads *)

\* the indices of fftData lines 858-866 read for a bar
ReadIndices(bar) ==
    {bar.binLo, bar.binLo + 1, bar.binHi, bar.binHi + 1}
    \cup ((bar.binLo + 1)..(bar.binHi - 1))

\* C26 as the spec states it: every index of the magnitude array a frame
\* reads for a bar lies within [0, fftSize/2 - 1].
C26_ReadsInRange ==
    call.op = "_draw" =>
        \A k \in 1..Len(am.bars) :
            ReadIndices(am.bars[k]) \subseteq 0..(am.fftSize \div 2 - 1)

---------------------------------------------------------------------------
(* The energy peak against the energy *)

\* C27 as the spec states it: after every frame the energy peak is a number
\* >= the energy of the frame and >= 0.
C27_PeakAboveEnergy ==
    call.op = "_draw" =>
        /\ ~IsNaN(am.energy.val) /\ ~IsNaN(am.energy.peak)
        /\ am.energy.peak >= am.energy.val
        /\ am.energy.peak >= 0

\* the same for the frames whose energy is a number
C27_NumericOnly ==
    call.op = "_draw" /\ ~IsNaN(am.energy.val) =>
        am.energy.peak >= am.energy.val /\ am.energy.peak >= 0

---------------------------------------------------------------------------
(* Resize and fullscreen events with timers that fire *)

SettleOptions == {[DefaultOptions EXCEPT !.fftSize = 32]}
SettleSizes   == {<<640, 270>>, <<320, 200>>, <<800, 600>>, <<1024, 400>>}

InitSettle == InitWith(SettleOptions)

NextSettle ==
    \/ \E d \in SettleSizes : resize(d[1], d[2])
    \/ \E t \in am.timers : timeout(t)
    \/ fullscreenchange

\* a pending timeout fires after its 60 ms
SpecSettle ==
    InitSettle /\ [][NextSettle]_vars /\ WF_vars(\E t \in am.timers : timeout(t))

\* the canvas has the size of what it shows: the screen in fullscreen, the
\* container otherwise (no width or height option, device pixel ratio 1)
CanvasFits(s) ==
    IF s.fullscreen
    THEN s.canvasW = Screen.width /\ s.canvasH = Screen.height
    ELSE s.canvasW = s.containerW /\ s.canvasH = s.containerH

\* C28 as the spec states it: once no timer is pending, which is where
\* every event sequence ends when pending timers fire, a _setCanvas call
\* has run since the last event: the canvas has the size of the container,
\* or of the screen in fullscreen.
C28_ResizeNotLost ==
    am.timers = {} => CanvasFits(am)

\* the part of C28 that holds: a resize event that arrives outside the
\* settle window of a fullscreen change starts or finds a resize timer
C28_OutsideSettle ==
    [][call'.op = "resize" /\ ~am.fsChanging
         => \E tm \in am'.timers : tm.kind = "resize"]_vars

---------------------------------------------------------------------------
(* The main process: the backend's stdout (src/main.js, startPythonBackend) *)

\* The bytes of the stream, by name: a double quote, a letter, a space, a
\* line feed, and the two bytes of a two-byte UTF-8 character (U+00E9).
DQ == "dq"
SP == "sp"
LF == "lf"
Lead == "C3"
Cont == "A9"
Letter == "a"

\* what decoding yields for the two-byte character, and for a byte that is
\* not part of a well-formed sequence (the replacement character)
EAcute == "U+00E9"
Replacement == "U+FFFD"

\* data.toString(): the UTF-8 decoding of ONE chunk, from byte i on
RECURSIVE DecodeFrom(_, _)
DecodeFrom(bytes, i) ==
    IF i > Len(bytes) THEN << >>
    ELSE IF bytes[i] = Lead /\ i < Len(bytes) /\ bytes[i + 1] = Cont
         THEN <<EAcute>> \o DecodeFrom(bytes, i + 2)
    ELSE IF bytes[i] \in {Lead, Cont}
         THEN <<Replacement>> \o DecodeFrom(bytes, i + 1)
    ELSE <<bytes[i]>> \o DecodeFrom(bytes, i + 1)

Decode(bytes) == DecodeFrom(bytes, 1)

\* the index of the first line feed of a text that has one
FirstLF(text) ==
    CHOOSE i \in 1..Len(text) :
        text[i] = LF /\ \A j \in 1..(i - 1) : text[j] # LF

\* text.split('\n'): the pieces between line feeds (always at least one)
RECURSIVE Split(_)
Split(text) ==
    IF \A i \in 1..Len(text) : text[i] # LF THEN <<text>>
    ELSE <<SubSeq(text, 1, FirstLF(text) - 1)>>
         \o Split(SubSeq(text, FirstLF(text) + 1, Len(text)))

\* line.trim(): without its leading and trailing white space
RECURSIVE TrimLine(_)
TrimLine(line) ==
    IF line = << >> THEN line
    ELSE IF line[1] = SP THEN TrimLine(Tail(line))
    ELSE IF line[Len(line)] = SP THEN TrimLine(SubSeq(line, 1, Len(line) - 1))
    ELSE line

\* JSON.parse( trimmed ): over these characters the only JSON text is a
\* string, a double quote, characters other than a double quote, a double
\* quote; anything else throws.  The value is the string's content.
JsonParse(trimmed) ==
    IF /\ Len(trimmed) >= 2
       /\ trimmed[1] = DQ
       /\ trimmed[Len(trimmed)] = DQ
       /\ \A i \in 2..(Len(trimmed) - 1) : trimmed[i] # DQ
    THEN [ok |-> TRUE, value |-> SubSeq(trimmed, 2, Len(trimmed) - 1)]
    ELSE [ok |-> FALSE, value |-> << >>]

\* the body of `for (const line of lines)` for one line: what the window
\* has been sent after it
ForwardLine(sent, line, window) ==
    IF TrimLine(line) = << >> THEN sent
    ELSE IF JsonParse(TrimLine(line)).ok /\ window
         THEN Append(sent, JsonParse(TrimLine(line)).value)
    ELSE sent

RECURSIVE ForwardLines(_, _, _)
ForwardLines(sent, lines, window) ==
    IF lines = << >> THEN sent
    ELSE ForwardLines(ForwardLine(sent, Head(lines), window), Tail(lines),
                      window)

\* pythonProcess.stdout.on('data', (data) => ...)
OnData(m, data) ==
    [m EXCEPT
        !.buffer = Split(m.buffer \o Decode(data))
                       [Len(Split(m.buffer \o Decode(data)))],
        !.sent = ForwardLines(m.sent,
                     SubSeq(Split(m.buffer \o Decode(data)), 1,
                            Len(Split(m.buffer \o Decode(data))) - 1),
                     m.window)]

\* no analyzer lives in the main process
NoAnalyzer ==
    /\ am = UNDEF
    /\ pending = {}
    /\ nextId = 1
    /\ call = [op |-> "none", args |-> << >>]
    /\ err = NoErr
    /\ lastStop = FALSE

\* the largest chunk the pipe delivers at once
MaxChunk == 3

\* the next n bytes of the stream arrive as one 'data' event
data(n) ==
    /\ main.pos + n <= Len(main.stream)
    /\ main' = [OnData(main, SubSeq(main.stream, main.pos + 1, main.pos + n))
                    EXCEPT !.pos = main.pos + n]
    /\ UNCHANGED <<am, pending, nextId, call, err, lastStop, ui>>

\* mainWindow.on('closed', ...): mainWindow = null
closed ==
    /\ main.window
    /\ main' = [main EXCEPT !.window = FALSE]
    /\ UNCHANGED <<am, pending, nextId, call, err, lastStop, ui>>

Streams ==
    {<<DQ, Letter, DQ, LF, DQ, Letter, Letter, DQ, LF>>,
     <<DQ, Lead, Cont, DQ, LF, DQ, Letter>>,
     <<Letter, LF, SP, LF, DQ, Letter, DQ, LF>>,
     <<SP, DQ, Letter, SP, DQ, SP, LF, LF, DQ>>,
     <<DQ, Letter, DQ, DQ, LF, DQ, DQ, LF, Letter>>,
     <<DQ, Letter, Lead, Cont, DQ, LF, DQ, Cont, DQ, LF>>}

InitBackend ==
    /\ NoAnalyzer
    /\ \E s \in Streams : main = [MainIdle EXCEPT !.stream = s]
    /\ ui = UiIdle

NextBackend ==
    \/ \E n \in 1..MaxChunk : data(n)
    \/ closed

SpecBackend == InitBackend /\ [][NextBackend]_vars

\* the handler's state had the bytes delivered so far come as one chunk
OneChunk(m) == OnData(MainIdle, SubSeq(m.stream, 1, m.pos))

IsPrefix(a, b) == Len(a) <= Len(b) /\ a = SubSeq(b, 1, Len(a))

\* C29: however the stream is split into chunks, while the window is open
\* the messages forwarded are those of the stream taken as a whole, in
\* order and once each, and once all bytes arrived the buffer holds exactly
\* the trailing partial line.
C29_ChunkingIndependent ==
    main.window =>
        /\ IsPrefix(main.sent, OnData(MainIdle, main.stream).sent)
        /\ main.pos = Len(main.stream) =>
               /\ main.sent = OnData(MainIdle, main.stream).sent
               /\ main.buffer = OnData(MainIdle, main.stream).buffer

\* the same for the streams in which every byte is a character of its own:
\* there the handler is at every moment where one chunk would have put it
C29_SingleByteOnly ==
    (main.window /\ \A i \in 1..Len(main.stream) :
                        main.stream[i] \notin {Lead, Cont})
        => /\ main.sent = OneChunk(main).sent
           /\ main.buffer = OneChunk(main).buffer


---------------------------------------------------------------------------
(* The renderer's window controls (src/unnamed/part_004)                   *)

\* the messages window.electronAPI sends to the main process
IgnoreMouse(flag) == IF flag THEN "setIgnoreMouse(true)"
                     ELSE "setIgnoreMouse(false)"
StartDrag == "startDrag"
MoveWindow == "moveWindow"
EndDrag == "endDrag"

\* the renderer after a handler that sent msgs
Sent(u, msgs) ==
    /\ ui' = [u EXCEPT !.ipc = msgs]
    /\ UNCHANGED <<am, pending, nextId, call, err, lastStop, main>>

\* closeSettings()
CloseSettings(u) == [u EXCEPT !.open = FALSE, !.ipc = <<IgnoreMouse(TRUE)>>]

\* toggleSettings()
ToggleSettings(u) ==
    [u EXCEPT !.open = ~u.open, !.ipc = <<IgnoreMouse(u.open)>>]

\* the enableVisualization() calls that may be suspended at once
MaxViz == 2

\* 'mouseenter' on the title bar, the settings panel or the drag button
mouseenter ==
    /\ ~ui.hover
    /\ Sent([ui EXCEPT !.hover = TRUE], <<IgnoreMouse(FALSE)>>)

\* 'mouseleave' on one of them
mouseleave ==
    /\ ui.hover
    /\ Sent([ui EXCEPT !.hover = FALSE],
            IF ~ui.open /\ ~ui.isDragging THEN <<IgnoreMouse(TRUE)>>
            ELSE << >>)

\* 'mousedown' on the drag button
mousedown ==
    /\ ui.hover /\ ~ui.isDragging
    /\ Sent([ui EXCEPT !.isDragging = TRUE], <<StartDrag>>)

\* 'mousemove' on the document, the pointer having moved or not
mousemove(moved) ==
    Sent(ui, IF ui.isDragging /\ moved THEN <<MoveWindow>> ELSE << >>)

\* 'mouseup' on the document
mouseup ==
    IF ui.isDragging
    THEN Sent([ui EXCEPT !.isDragging = FALSE],
              IF ~ui.open THEN <<EndDrag, IgnoreMouse(TRUE)>>
              ELSE <<EndDrag>>)
    ELSE Sent(ui, << >>)

\* a click needs the pointer over the control and the button released
CanClick == ui.hover /\ ~ui.isDragging

\* 'click' on the settings button
clickSettings ==
    /\ CanClick
    /\ Sent(ToggleSettings(ui), ToggleSettings(ui).ipc)

\* 'click' on the settings panel's close button
clickSettingsClose ==
    /\ CanClick /\ ui.open
    /\ Sent(CloseSettings(ui), CloseSettings(ui).ipc)

\* enableVisualization() up to its first await, from the start-up timeout
\* or from a click on the visualization button of the settings panel
enableVisualization(byTimer) ==
    /\ ui.media + ui.init < MaxViz
    /\ IF byTimer THEN ui.timer ELSE CanClick /\ ui.open
    /\ Sent([ui EXCEPT !.media = ui.media + 1,
                       !.timer = IF byTimer THEN FALSE ELSE ui.timer],
            << >>)

\* getDisplayMedia() settles: with an audio track the call goes on to
\* await initializeVisualizer(), without one it returns, rejected it ends
\* in the catch block
mediaSettled(outcome) ==
    /\ ui.media > 0
    /\ Sent([ui EXCEPT !.media = ui.media - 1,
                       !.init = IF outcome = "audio" THEN ui.init + 1
                                ELSE ui.init],
            << >>)

\* initializeVisualizer() settles: fulfilled, the call goes on to
\* closeSettings(); rejected, it ends in the catch block
initSettled(fulfilled) ==
    /\ ui.init > 0
    /\ IF fulfilled
       THEN Sent(CloseSettings([ui EXCEPT !.init = ui.init - 1]),
                 CloseSettings(ui).ipc)
       ELSE Sent([ui EXCEPT !.init = ui.init - 1], << >>)

InitControls ==
    /\ NoAnalyzer
    /\ main = MainIdle
    /\ ui = UiIdle

NextControls ==
    \/ mouseenter
    \/ mouseleave
    \/ mousedown
    \/ \E moved \in BOOLEAN : mousemove(moved)
    \/ mouseup
    \/ clickSettings
    \/ clickSettingsClose
    \/ \E byTimer \in BOOLEAN : enableVisualization(byTimer)
    \/ \E outcome \in {"audio", "silent", "rejected"} : mediaSettled(outcome)
    \/ \E fulfilled \in BOOLEAN : initSettled(fulfilled)

SpecControls == InitControls /\ [][NextControls]_vars

\* C30: while a drag is in progress (isDragging set by mousedown and not
\* yet cleared by mouseup) no handler has sent setIgnoreMouse(true).
C30_NoIgnoreWhileDragging ==
    ui.isDragging =>
        \A i \in 1..Len(ui.ipc) : ui.ipc[i] # IgnoreMouse(TRUE)

\* the mouse handlers alone keep to it: during a drag a step that settles
\* no initializeVisualizer() sends no setIgnoreMouse(true)
C30_MouseHandlersOnly ==
    [][(ui.isDragging /\ ui'.isDragging /\ ui'.init = ui.init)
           => \A i \in 1..Len(ui'.ipc) : ui'.ipc[i] # IgnoreMouse(TRUE)]_vars

====
